---- MODULE Spec2Model ----
(***************************************************************************)
(* State-machine model of the video job pipeline (src/main.py) and of the  *)
(* media composition engine (src/services/video_composer.py).              *)
(*                                                                         *)
(* All coroutines run on one asyncio event loop.  A coroutine gives up the *)
(* loop only at an await that really suspends (a collaborator call, a      *)
(* sleep).  save_videos_db never suspends: its lock is only taken around a *)
(* synchronous file write, so it is never contended.  Each action below is *)
(* therefore one run of a coroutine from one suspension point to the next. *)
(***************************************************************************)
EXTENDS Integers, Sequences, FiniteSets, TLC

VARIABLES
  videos_db,     \* in-memory job map: job id -> record (main.py:56)
  db_file,       \* the store file videos_db.json (main.py:35)
  pc,            \* per job: position of its request handler / background task
  stage,         \* per job: index of the stage whose collaborator call is awaited
  request,       \* per job: the submission (VideoCreateRequest / ...WithScriptRequest)
  art,           \* per job: local variables of the pipeline coroutine (artifacts)
  hist,          \* per job: history of what happened to it (observation only)
  write_fails,   \* number of store writes that have failed so far
  last_write,    \* outcome of the most recent store write
  submitted,     \* number of calls of the two create endpoints so far
  comp,          \* last call of a composition operation and the files it left
  resp,          \* last call of a query endpoint or of update_progress, and its answer
  av,            \* the create_avatar_video call under way, or the last one
  lk,            \* db_lock and the statement each coroutine has reached
  boot,          \* the last start of the process: what load_videos_db met
  sched,         \* the event loop and the media files of concurrent pipelines
  media,         \* last run of a media-tool command: its inputs and its output
  svc            \* last call of an avatar-service operation on its own

vars == << videos_db, db_file, pc, stage, request, art, hist, write_fails,
           last_write, submitted, comp, resp, av, lk, boot, sched, media,
           svc >>

storeVars == << videos_db, db_file, pc, stage, request, art, hist, write_fails,
                last_write, submitted >>

sideVars == << sched, media, svc >>

probeVars == << resp, av, lk, boot, sched, media, svc >>

-----------------------------------------------------------------------------
(* Bounds of the model *)

JobIds == {"j1", "j2"}

MaxSections == 2

MaxWriteFailures == 1

-----------------------------------------------------------------------------
(* Values *)

NULL == "NULL"

Modes == {"avatar", "screen_recording", "custom_avatar_overlay"}

Providers == {"heygen", "did"}

\* the submissions; provider is read only by the avatar branch of
\* process_video_pipeline, so it is varied only there
Requests ==
  {r \in [mode : Modes, provider : Providers, with_script : BOOLEAN] :
     r.provider = "did" => (r.mode = "avatar" /\ ~r.with_script)}

DownloadUrl(j) ==
  CASE j = "j1" -> "/api/videos/j1/download"
    [] j = "j2" -> "/api/videos/j2/download"
    [] OTHER -> "/api/videos/_/download"

FinalPath(j) ==
  CASE j = "j1" -> "videos/final_j1.mp4"
    [] j = "j2" -> "videos/final_j2.mp4"
    [] OTHER -> "videos/final__.mp4"

-----------------------------------------------------------------------------
(* Exception texts that reach the pipeline's except clause, as str(e) *)

MsgWebsiteFetch == "Website fetch error: refused"

MsgWebsiteTimeout == "Website fetch error: Timeout"

MsgScriptApi == "invalid x-api-key"

MsgScriptApiTimeout == "API request Timeout"

\* _create_demo_video for the default persona
MsgDemoNotFound ==
  "Demo video not found: videos/demo_avatar_professional_female.mp4. Please create valid demo videos first."

MsgTypeError == "string indices must be integers"

MsgOSError == "No space left on device"

\* the characters of an exception text
Chars(e) ==
  CASE e = MsgWebsiteFetch ->
       << "W", "e", "b", "s", "i", "t", "e", " ", "f", "e", "t", "c", "h", " ", "e", "r", "r", "o", "r", ":", " ", "r", "e", "f", "u", "s", "e", "d" >>
    [] e = MsgWebsiteTimeout ->
       << "W", "e", "b", "s", "i", "t", "e", " ", "f", "e", "t", "c", "h", " ", "e", "r", "r", "o", "r", ":", " ", "T", "i", "m", "e", "o", "u", "t" >>
    [] e = MsgScriptApi ->
       << "i", "n", "v", "a", "l", "i", "d", " ", "x", "-", "a", "p", "i", "-", "k", "e", "y" >>
    [] e = MsgScriptApiTimeout ->
       << "A", "P", "I", " ", "r", "e", "q", "u", "e", "s", "t", " ", "T", "i", "m", "e", "o", "u", "t" >>
    [] e = MsgDemoNotFound ->
       << "D", "e", "m", "o", " ", "v", "i", "d", "e", "o", " ", "n", "o", "t", " ", "f", "o", "u", "n", "d", ":", " ", "v", "i", "d", "e", "o", "s", "/", "d", "e", "m", "o", "_", "a", "v", "a", "t", "a", "r", "_", "p", "r", "o", "f", "e", "s", "s", "i", "o", "n", "a", "l", "_", "f", "e", "m", "a", "l", "e", ".", "m", "p", "4", ".", " ", "P", "l", "e", "a", "s", "e", " ", "c", "r", "e", "a", "t", "e", " ", "v", "a", "l", "i", "d", " ", "d", "e", "m", "o", " ", "v", "i", "d", "e", "o", "s", " ", "f", "i", "r", "s", "t", "." >>
    [] e = MsgTypeError ->
       << "s", "t", "r", "i", "n", "g", " ", "i", "n", "d", "i", "c", "e", "s", " ", "m", "u", "s", "t", " ", "b", "e", " ", "i", "n", "t", "e", "g", "e", "r", "s" >>
    [] e = MsgOSError ->
       << "N", "o", " ", "s", "p", "a", "c", "e", " ", "l", "e", "f", "t", " ", "o", "n", " ", "d", "e", "v", "i", "c", "e" >>
    [] OTHER -> << >>

-----------------------------------------------------------------------------
(* Error classification: the except clause of both pipelines               *)

CatGeneric == "Video isleme sirasinda bir hata olustu"

CatTimeout == "Video olusturma zaman asimina ugradi"

CatApi == "API servisi ile baglanti kurulamadi"

Categories == {CatGeneric, CatTimeout, CatApi}

RawTexts == {MsgWebsiteFetch, MsgWebsiteTimeout, MsgScriptApi, MsgScriptApiTimeout,
             MsgDemoNotFound, MsgTypeError, MsgOSError}

\* str.lower() on one character
LowerChar(c) ==
  CASE c = "A" -> "a"
    [] c = "B" -> "b"
    [] c = "C" -> "c"
    [] c = "D" -> "d"
    [] c = "E" -> "e"
    [] c = "F" -> "f"
    [] c = "G" -> "g"
    [] c = "H" -> "h"
    [] c = "I" -> "i"
    [] c = "J" -> "j"
    [] c = "K" -> "k"
    [] c = "L" -> "l"
    [] c = "M" -> "m"
    [] c = "N" -> "n"
    [] c = "O" -> "o"
    [] c = "P" -> "p"
    [] c = "Q" -> "q"
    [] c = "R" -> "r"
    [] c = "S" -> "s"
    [] c = "T" -> "t"
    [] c = "U" -> "u"
    [] c = "V" -> "v"
    [] c = "W" -> "w"
    [] c = "X" -> "x"
    [] c = "Y" -> "y"
    [] c = "Z" -> "z"
    [] OTHER -> c

\* str.lower()
Lower(s) == [i \in DOMAIN s |-> LowerChar(s[i])]

\* the Python test  pat in s  on strings
Contains(s, pat) ==
  \E i \in 0..(Len(s) - Len(pat)) : SubSeq(s, i + 1, i + Len(pat)) = pat

\* a handler that stores the exception text itself as the message
ErrorMessageRaw(e) == e

\* a classification that tests for "api" before "timeout"
ClassifyApiFirst(text) ==
  LET s == Lower(text) IN
  IF Contains(s, << "a", "p", "i" >>) THEN CatApi
  ELSE IF Contains(s, << "t", "i", "m", "e", "o", "u", "t" >>) THEN CatTimeout
  ELSE CatGeneric

\* error_msg of process_video_pipeline (main.py:590-594) for the characters
\* of str(e)
Classify(text) ==
  LET s == Lower(text) IN
  IF Contains(s, << "t", "i", "m", "e", "o", "u", "t" >>) THEN CatTimeout
  ELSE IF Contains(s, << "a", "p", "i" >>) THEN CatApi
  ELSE CatGeneric

\* error_msg of process_video_pipeline_with_script (main.py:440-444)
ClassifyWithScript(text) ==
  LET msg0 == CatGeneric
      lowered == Lower(text)
  IN
  IF Contains(lowered, << "t", "i", "m", "e", "o", "u", "t" >>) THEN CatTimeout
  ELSE IF Contains(Lower(text), << "a", "p", "i" >>) THEN CatApi
  ELSE msg0

\* error_msg as computed at main.py:591-595 (and 440-444) from str(e)
ErrorMessage(e) == Classify(Chars(e))

\* error_msg for each exception text
ErrorMessages == [e \in RawTexts |-> ErrorMessage(e)]

-----------------------------------------------------------------------------
(* Stage tables: the update_progress calls of each branch, in code order,  *)
(* each followed by the collaborator call that is awaited after it         *)

St(p, l, c) == [progress |-> p, label |-> << "", l >>, call |-> c]

LblAnalyze == "Analyzing content..."
LblRecord == "Recording screen with browser automation..."
LblPrepare == "Preparing screen recording..."
LblScript == "Generating Turkish narration script with AI..."
LblVoice == "Creating Turkish professional voiceover..."
LblCustomAvatar == "Creating custom avatar video with lip-sync..."
LblOverlay == "Overlaying circular avatar on screen recording..."
LblMux == "Muxing screen recording with audio..."
LblRender == "Rendering avatar video segments..."
LblCompose == "Composing final video..."
LblDone == "Video completed successfully!"
LblInit == "Initializing..."
LblFail == "Hata: "

\* process_video_pipeline with one boundary of the screen_recording branch
\* mistyped (7 for 70)
GeneratedStagesTypo(mode) ==
  CASE mode = "custom_avatar_overlay" ->
         << St(5, LblAnalyze, "analyze"), St(15, LblRecord, "record"),
            St(35, LblScript, "script"), St(50, LblVoice, "tts"),
            St(65, LblCustomAvatar, "did"), St(85, LblOverlay, "overlay") >>
    [] mode = "screen_recording" ->
         << St(10, LblAnalyze, "analyze"), St(20, LblRecord, "record"),
            St(50, LblScript, "script"), St(7, LblVoice, "tts"),
            St(90, LblMux, "mux") >>
    [] OTHER ->
         << St(10, LblAnalyze, "analyze"), St(25, LblScript, "script"),
            St(45, LblVoice, "tts"), St(65, LblRender, "render"),
            St(85, LblCompose, "compose") >>

\* process_video_pipeline
GeneratedStages(mode) ==
  CASE mode = "custom_avatar_overlay" ->
         << St(5, LblAnalyze, "analyze"), St(15, LblRecord, "record"),
            St(35, LblScript, "script"), St(50, LblVoice, "tts"),
            St(65, LblCustomAvatar, "did"), St(85, LblOverlay, "overlay") >>
    [] mode = "screen_recording" ->
         << St(10, LblAnalyze, "analyze"), St(20, LblRecord, "record"),
            St(50, LblScript, "script"), St(70, LblVoice, "tts"),
            St(90, LblMux, "mux") >>
    [] OTHER ->
         << St(10, LblAnalyze, "analyze"), St(25, LblScript, "script"),
            St(45, LblVoice, "tts"), St(65, LblRender, "render"),
            St(85, LblCompose, "compose") >>

\* process_video_pipeline_with_script
ScriptStages(mode) ==
  CASE mode = "custom_avatar_overlay" ->
         << St(10, LblRecord, "record"), St(35, LblVoice, "tts"),
            St(60, LblCustomAvatar, "did"), St(85, LblOverlay, "overlay") >>
    [] mode = "screen_recording" ->
         << St(10, LblPrepare, "record"), St(50, LblVoice, "tts"),
            St(80, LblMux, "mux") >>
    [] OTHER ->
         << St(25, LblVoice, "tts"), St(50, LblRender, "render"),
            St(75, LblCompose, "compose") >>

\* the stages of each submission: process_video_pipeline_with_script for an
\* approved script, process_video_pipeline otherwise
StageTable ==
  [req \in Requests |->
     IF req.with_script THEN ScriptStages(req.mode) ELSE GeneratedStages(req.mode)]

Stages(req) == StageTable[req]

FinalProgress == 100

-----------------------------------------------------------------------------
(* The job store: videos_db and its file                                   *)

EmptyDb == [k \in {} |-> NULL]

CorruptFile == [valid |-> FALSE, content |-> EmptyDb]

\* outcome of  open(VIDEO_DB_FILE, "w") + json.dump :  the write succeeds,
\* open raises (file untouched), or json.dump raises after open truncated it
WriteOutcomes == {"ok", "open_error", "write_error"}

\* the record written by create_video / create_video_with_script
NewRecord(j, script) ==
  [video_id |-> j, status |-> "processing", progress |-> 0,
   current_stage |-> << "", LblInit >>, video_url |-> NULL, youtube_url |-> NULL,
   created_at |-> NULL, completed_at |-> NULL, error |-> NULL,
   video_path |-> NULL, approved_script |-> script]

\* a run of synchronous code: the map, the file, the pending exception (if
\* any), the index of the next write outcome and the last write's outcome
Run(db, f) == [db |-> db, file |-> f, raised |-> FALSE, nw |-> 1, lastw |-> "none"]

\* the file after one write of db with outcome w
WriteFile(db, f, w) ==
  CASE w = "ok" -> [valid |-> TRUE, content |-> db]
    [] w = "open_error" -> f
    [] OTHER -> CorruptFile

\* save_videos_db(db): one full-snapshot write; an I/O error propagates
SaveVideosDb(r, ws) ==
  LET w == ws[r.nw] IN
  [db |-> r.db, file |-> WriteFile(r.db, r.file, w), raised |-> (w # "ok"),
   nw |-> r.nw + 1, lastw |-> w]

\* update_progress that changes the record and leaves the file as it is
UpdateProgressNoSave(r, j, p, l, ws) ==
  IF j \in DOMAIN r.db
  THEN [r EXCEPT !.db = [r.db EXCEPT ![j].progress = p, ![j].current_stage = l]]
  ELSE r

\* update_progress that writes the progress into every record of the map
UpdateProgressAll(r, j, p, l, ws) ==
  IF j \in DOMAIN r.db
  THEN SaveVideosDb([r EXCEPT !.db = [k \in DOMAIN r.db |->
                                       [r.db[k] EXCEPT !.progress = p]]], ws)
  ELSE r

\* update_progress(video_id, progress, stage)
UpdateProgress(r, j, p, l, ws) ==
  IF j \in DOMAIN r.db
  THEN SaveVideosDb([r EXCEPT !.db = [r.db EXCEPT ![j].progress = p,
                                                   ![j].current_stage = l]], ws)
  ELSE r

\* the four assignments that complete a job (main.py:583-586 and its copies)
Completed(db, j, path) ==
  [db EXCEPT ![j].status = "completed",
             ![j].video_url = DownloadUrl(j),
             ![j].video_path = path,
             ![j].completed_at = "ts"]

\* an except clause that marks the job failed and records no category
ExceptHandlerNoError(r, j, e, ws) ==
  LET msg == ErrorMessages[e]
      db1 == [r.db EXCEPT ![j].status = "failed",
                          ![j].current_stage = << LblFail, msg >>]
  IN SaveVideosDb([r EXCEPT !.db = db1], ws)

\* the except clause of a pipeline: classify, mark failed, save; an error of
\* this last save leaves the coroutine as an unhandled exception
ExceptHandler(r, j, e, ws) ==
  LET msg == ErrorMessages[e]
      db1 == [r.db EXCEPT ![j].status = "failed",
                          ![j].error = msg,
                          ![j].current_stage = << LblFail, msg >>]
  IN SaveVideosDb([r EXCEPT !.db = db1], ws)

\* a pipeline without its except clause
GuardedNoHandler(r, j, e, ws) == r

\* try: body  except Exception as e: handler   for a body that ended in state r
\* with exception text e pending when r.raised
Guarded(r, j, e, ws) == IF r.raised THEN ExceptHandler(r, j, e, ws) ELSE r

\* the tail of a pipeline branch after its last collaborator call returned
Finish(r, j, path, ws) ==
  LET r1 == UpdateProgress(r, j, FinalProgress, << "", LblDone >>, ws) IN
  IF r1.raised THEN r1
  ELSE SaveVideosDb([r1 EXCEPT !.db = Completed(r1.db, j, path)], ws)

\* write outcomes for one run: at most three saves happen in one run; the
\* outcomes of saves that do not happen are fixed to "ok"
WriteSeqs == [1..3 -> WriteOutcomes]

Failures(ws, n) == Cardinality({i \in 1..3 : i < n /\ ws[i] # "ok"})

Unused(ws, n) == \A i \in 1..3 : i >= n => ws[i] = "ok"

-----------------------------------------------------------------------------
(* Media composition engine: services/video_composer.py                    *)
(*                                                                         *)
(* A call is described by what the operation finds (which inputs exist,    *)
(* the exit status of each tool command, whether ffprobe printed a         *)
(* duration, whether demo_assets/demo_video.mp4 exists).  Its result is    *)
(* the returned path, the content left at that path, the tool commands     *)
(* that were run in order, and the temporary files left behind.            *)

MaxClips == 2

ClipLists == UNION {[1..n -> BOOLEAN] : n \in 0..MaxClips}

Ops == {"compose_video", "compose_video_with_loop",
        "mux_screen_recording_with_audio", "overlay_avatar_on_screen_recording"}

\* contents a deliverable file can have: the output of a successful encode,
\* a copy of the demo asset, or the bare 32-byte ftyp header
Contents == {"encoded", "demo_asset", "header"}

Result(j, content, cmds, failed, temp) ==
  [path |-> FinalPath(j), content |-> content, cmds |-> cmds, raised |-> FALSE,
   failure |-> NULL, step_failed |-> failed, temp_left |-> temp]

\* _run_ffmpeg that runs the command again after a non-zero exit
RunFfmpegRetry(cmd, ok) ==
  IF ok THEN [cmds |-> << cmd >>, raised |-> FALSE]
  ELSE [cmds |-> << cmd, cmd >>, raised |-> TRUE]

\* _run_ffmpeg(cmd): one subprocess.run; RuntimeError on a non-zero exit
RunFfmpeg(cmd, ok) == [cmds |-> << cmd >>, raised |-> ~ok]

\* _create_demo_fallback(output_path): copy the demo asset, or write the header
CreateDemoFallback(demo_asset) == IF demo_asset THEN "demo_asset" ELSE "header"

\* compose_video(avatar_clips, audio_file, video_id)
ComposeVideo(j, clips, audio, concat_ok, mux_ok, demo_asset) ==
  LET valid == SelectSeq(clips, LAMBDA b : b)
      fb == CreateDemoFallback(demo_asset)
  IN
  IF clips = << >> \/ ~audio THEN Result(j, fb, << >>, TRUE, FALSE)
  ELSE IF valid = << >> THEN Result(j, fb, << >>, TRUE, FALSE)
  ELSE LET c1 == RunFfmpeg("concat", concat_ok) IN
       IF c1.raised THEN Result(j, fb, c1.cmds, TRUE, FALSE)
       ELSE LET c2 == RunFfmpeg("mux", mux_ok) IN
            IF c2.raised THEN Result(j, fb, c1.cmds \o c2.cmds, TRUE, FALSE)
            ELSE Result(j, "encoded", c1.cmds \o c2.cmds, FALSE, FALSE)

\* compose_video_with_loop(avatar_video, audio_file, video_id)
ComposeVideoWithLoop(j, avatar, audio, probe_ok, loop_ok, demo_asset) ==
  LET fb == CreateDemoFallback(demo_asset) IN
  IF ~avatar \/ ~audio THEN Result(j, fb, << >>, TRUE, FALSE)
  ELSE IF ~probe_ok THEN Result(j, fb, << "ffprobe" >>, TRUE, FALSE)
  ELSE LET c == RunFfmpeg("loop", loop_ok) IN
       IF c.raised THEN Result(j, fb, << "ffprobe" >> \o c.cmds, TRUE, FALSE)
       ELSE Result(j, "encoded", << "ffprobe" >> \o c.cmds, FALSE, FALSE)

\* mux_screen_recording_with_audio(screen_video, audio_file, video_id)
MuxScreenRecordingWithAudio(j, screen, audio, mux_ok, demo_asset) ==
  LET fb == CreateDemoFallback(demo_asset) IN
  IF ~screen THEN Result(j, fb, << >>, TRUE, FALSE)
  ELSE IF ~audio THEN Result(j, fb, << >>, TRUE, FALSE)
  ELSE LET c == RunFfmpeg("mux", mux_ok) IN
       IF c.raised THEN Result(j, fb, c.cmds, TRUE, FALSE)
       ELSE Result(j, "encoded", c.cmds, FALSE, FALSE)

\* overlay_avatar_on_screen_recording(screen_video, avatar_video, audio_file, video_id)
OverlayAvatarOnScreenRecording(j, screen, avatar, audio, probe_ok, overlay_ok, demo_asset) ==
  LET fb == CreateDemoFallback(demo_asset) IN
  IF ~screen THEN Result(j, fb, << >>, TRUE, FALSE)
  ELSE IF ~avatar THEN Result(j, fb, << >>, TRUE, FALSE)
  ELSE IF ~audio THEN Result(j, fb, << >>, TRUE, FALSE)
  ELSE IF ~probe_ok THEN Result(j, fb, << "ffprobe" >>, TRUE, FALSE)
  ELSE LET c == RunFfmpeg("overlay", overlay_ok) IN
       IF c.raised THEN Result(j, fb, << "ffprobe" >> \o c.cmds, TRUE, FALSE)
       ELSE Result(j, "encoded", << "ffprobe" >> \o c.cmds, FALSE, FALSE)

-----------------------------------------------------------------------------
(* Avatar rendering, as the pipeline sees it                               *)

\* what the remote render of one clip comes to: the poll loop sees done,
\* sees error (or the HTTP call fails), or runs out of attempts
RemoteResults == {"done", "error", "timeout"}

\* DIDService.create_avatar_video with _create_demo_video: the rendered clip,
\* else the cached placeholder, else an exception
DIDCreateAvatarVideo(remote, placeholder) ==
  IF remote = "done" THEN [raised |-> FALSE, msg |-> NULL, clip |-> "real"]
  ELSE IF placeholder THEN [raised |-> FALSE, msg |-> NULL, clip |-> "demo"]
  ELSE [raised |-> TRUE, msg |-> MsgDemoNotFound, clip |-> "none"]

\* HeyGenService.create_avatar_video with _create_demo_video: the rendered
\* clip, else a demo clip it creates itself; it never raises
HeyGenCreateAvatarVideo(remote) ==
  IF remote = "done" THEN [raised |-> FALSE, msg |-> NULL, clip |-> "real"]
  ELSE [raised |-> FALSE, msg |-> NULL, clip |-> "demo"]

\* the service render_avatar_segments constructs for a provider flag
SelectService(provider) == IF provider = "heygen" THEN "heygen" ELSE "did"

\* render_avatar_segments without the try around create_avatar_video: the
\* first section whose render raises ends the call
RenderAvatarSegmentsNoCatch(provider, script, results, placeholder) ==
  IF script # "dict"
  THEN [raised |-> TRUE, msg |-> MsgTypeError, clips |-> 0, skipped |-> 0,
        order |-> << >>, backend |-> "none"]
  ELSE LET one(i) == IF SelectService(provider) = "heygen"
                     THEN HeyGenCreateAvatarVideo(results[i])
                     ELSE DIDCreateAvatarVideo(results[i], placeholder)
           made == {i \in DOMAIN results : ~one(i).raised}
       IN IF made # DOMAIN results
          THEN [raised |-> TRUE, msg |-> MsgDemoNotFound, clips |-> 0,
                skipped |-> 0, order |-> << >>, backend |-> "none"]
          ELSE [raised |-> FALSE, msg |-> NULL, clips |-> Cardinality(made),
                skipped |-> 0, order |-> [i \in DOMAIN results |-> i],
                backend |-> IF results = << >> THEN "none"
                            ELSE SelectService(provider)]

\* AvatarService.render_avatar_segments(script, avatar_type, audio_file, provider):
\* script["sections"] raises TypeError on a str script; a section whose render
\* raises is skipped
RenderAvatarSegments(provider, script, results, placeholder) ==
  IF script # "dict"
  THEN [raised |-> TRUE, msg |-> MsgTypeError, clips |-> 0, skipped |-> 0,
        order |-> << >>, backend |-> "none"]
  ELSE LET one(i) == IF SelectService(provider) = "heygen"
                     THEN HeyGenCreateAvatarVideo(results[i])
                     ELSE DIDCreateAvatarVideo(results[i], placeholder)
           made == {i \in DOMAIN results : ~one(i).raised}
       IN [raised |-> FALSE, msg |-> NULL, clips |-> Cardinality(made),
           skipped |-> Len(results) - Cardinality(made),
           order |-> SelectSeq([i \in DOMAIN results |-> i], LAMBDA i : i \in made),
           backend |-> IF results = << >> THEN "none" ELSE SelectService(provider)]

\* what render_avatar_segments can come to for a provider, a kind of script
\* and a number of sections: over the remote result of each section and over
\* whether the placeholder clip videos/demo_avatar_<persona>.mp4 exists
RenderOutcomes ==
  [provider \in Providers, script \in {"none", "str", "dict"}, n \in 0..MaxSections |->
     {LET r == RenderAvatarSegments(provider, script, results, ph)
      IN [msg |-> r.msg, clips |-> r.clips, backend |-> r.backend,
          failure |-> r.raised \/ (\E i \in DOMAIN results : results[i] # "done"),
          timeouts |-> results # << >> /\ ~ph
                         /\ \A i \in DOMAIN results : results[i] = "timeout"]
        : results \in [1..n -> RemoteResults], ph \in BOOLEAN}]

-----------------------------------------------------------------------------
(* The pipelines                                                           *)

NoArt == [script |-> "none", sections |-> 0, clips |-> 0, backend |-> "none",
          encoded |-> FALSE]

NoHist == [failure |-> FALSE, env_failure |-> FALSE, raised |-> FALSE, storage |-> FALSE,
           timeouts |-> FALSE, stage_after_failure |-> FALSE,
           terminal_overwritten |-> FALSE, log |-> << >>]

NoRequest == [mode |-> "avatar", provider |-> "heygen", with_script |-> FALSE]

\* what a collaborator call comes to: an exception text (or NULL), the
\* pipeline's local variables after it (the kind of script, its number of
\* sections, the number of avatar clips), whether something failed inside
\* the call, and whether every avatar render timed out with no placeholder
\* clip videos/demo_avatar_<persona>.mp4 cached
Outcome(msg, a, failure, timeouts) ==
  [raised |-> msg # NULL, msg |-> msg, art |-> a, failure |-> failure,
   timeouts |-> timeouts]

CallOutcomes(j) ==
  LET a == art[j]
      req == request[j]
      c == Stages(req)[stage[j]].call
  IN
  CASE c = "analyze" ->
         \* ContentAnalyzer.analyze_url: a result, or Exception("Website ... error")
         {Outcome(NULL, a, FALSE, FALSE)}
           \cup {Outcome(m, a, TRUE, FALSE) : m \in {MsgWebsiteFetch, MsgWebsiteTimeout}}
    [] c = "record" ->
         \* ScreenRecorderService.record_website: the recording, or the demo
         \* recording when anything inside fails; it never raises
         {Outcome(NULL, a, FALSE, FALSE), Outcome(NULL, a, TRUE, FALSE)}
    [] c = "script" ->
         \* ScriptGenerator.generate_script: a dict with k sections, or the
         \* exception of the AI client
         {Outcome(NULL, [a EXCEPT !.script = "dict", !.sections = k], FALSE, FALSE)
            : k \in 1..MaxSections}
           \cup {Outcome(m, a, TRUE, FALSE) : m \in {MsgScriptApi, MsgScriptApiTimeout}}
    [] c = "tts" ->
         \* TTSService.generate_audio: the narration, or the demo audio when
         \* the ElevenLabs call fails; it never raises
         {Outcome(NULL, a, FALSE, FALSE), Outcome(NULL, a, TRUE, FALSE)}
    [] c = "render" ->
         {Outcome(x.msg, [a EXCEPT !.clips = x.clips, !.backend = x.backend],
                  x.failure, x.timeouts)
            : x \in RenderOutcomes[req.provider, a.script, a.sections]}
    [] c = "did" ->
         {LET r == DIDCreateAvatarVideo(remote, ph)
          IN Outcome(r.msg, [a EXCEPT !.backend = "did"], remote # "done",
                     remote = "timeout" /\ ~ph)
            : remote \in RemoteResults, ph \in BOOLEAN}
    [] c = "compose" ->
         {LET r == ComposeVideo(j, [i \in 1..a.clips |-> TRUE], TRUE, ok, ok, demo)
          IN Outcome(NULL, [a EXCEPT !.encoded = (r.content = "encoded")], r.step_failed, FALSE)
            : ok \in BOOLEAN, demo \in BOOLEAN}
    [] c = "mux" ->
         {LET r == MuxScreenRecordingWithAudio(j, TRUE, TRUE, ok, demo)
          IN Outcome(NULL, [a EXCEPT !.encoded = (r.content = "encoded")], r.step_failed, FALSE)
            : ok \in BOOLEAN, demo \in BOOLEAN}
    [] OTHER ->
         {LET r == OverlayAvatarOnScreenRecording(j, TRUE, TRUE, TRUE, ok, ok, demo)
          IN Outcome(NULL, [a EXCEPT !.encoded = (r.content = "encoded")], r.step_failed, FALSE)
            : ok \in BOOLEAN, demo \in BOOLEAN}

\* the progress values seen in successive snapshots of the store file
NextLog(k, log, f) ==
  IF f.valid /\ k \in DOMAIN f.content
       /\ (log = << >> \/ log[Len(log)] # f.content[k].progress)
  THEN Append(log, f.content[k].progress)
  ELSE log

Logged(h, f) == [k \in JobIds |-> [h[k] EXCEPT !.log = NextLog(k, h[k].log, f)]]

\* an id drawn without regard to the ids in use
AnyId(j) == pc[j] = "idle" \/ pc[j] = "done"

\* str(uuid.uuid4()): an id no record has; ids are handed out in a fixed order
FreshId(j) ==
  /\ pc[j] = "idle"
  /\ j \notin DOMAIN videos_db
  /\ (j = "j2" => pc["j1"] # "idle")

\* write outcomes a run may meet: at most three saves happen in one run, and
\* no more than MaxWriteFailures writes fail overall
Budgeted ==
  {ws \in WriteSeqs :
     Cardinality({i \in 1..3 : ws[i] # "ok"}) <= MaxWriteFailures - write_fails}

\* every write succeeds
NoWriteFailure == {[i \in 1..3 |-> "ok"]}

\* the state after a run r of job j's code
Commit(j, r, ws) ==
  /\ Unused(ws, r.nw)
  /\ videos_db' = r.db
  /\ db_file' = r.file
  /\ write_fails' = write_fails + Failures(ws, r.nw)
  /\ last_write' = IF r.lastw = "none" THEN last_write ELSE r.lastw

\* create_video / create_video_with_script: insert the record, save, add the
\* background task; an error of the save ends the handler before add_task
Submit(j, req, W) ==
  /\ FreshId(j)
  /\ \E ws \in W :
     \E r \in {SaveVideosDb(Run([k \in DOMAIN videos_db \cup {j} |->
                                   IF k = j
                                   THEN NewRecord(j, IF req.with_script
                                                     THEN "script" ELSE NULL)
                                   ELSE videos_db[k]], db_file), ws)} :
        /\ Commit(j, r, ws)
        /\ pc' = [pc EXCEPT ![j] = IF r.raised THEN "orphan" ELSE "queued"]
        /\ request' = [request EXCEPT ![j] = req]
        /\ submitted' = submitted + 1
        /\ hist' = Logged([hist EXCEPT ![j] = [NoHist EXCEPT !.storage = r.raised]],
                          r.file)
        /\ stage' = [stage EXCEPT ![j] = 0]
        /\ art' = [art EXCEPT ![j] = NoArt]
        /\ UNCHANGED << comp, probeVars >>

CreateVideo(j, W) ==
  \E req \in Requests : ~req.with_script /\ Submit(j, req, W)

CreateVideoWithScript(j, W) ==
  \E req \in Requests : req.with_script /\ Submit(j, req, W)

\* process_video_pipeline[_with_script] from its start to its first
\* suspension: created_at, save, the first update_progress
StartBody(j, ws) ==
  LET st == Stages(request[j])
      r1 == SaveVideosDb(Run([videos_db EXCEPT ![j].created_at = "ts"], db_file), ws)
  IN IF r1.raised THEN r1
     ELSE UpdateProgress(r1, j, st[1].progress, st[1].label, ws)

StartPipeline(j, W) ==
  /\ pc[j] = "queued"
  /\ \E ws \in W :
     \E body \in {StartBody(j, ws)} :
     \E r \in {Guarded(body, j, MsgOSError, ws)} :
        /\ Commit(j, r, ws)
        /\ pc' = [pc EXCEPT ![j] = IF body.raised THEN "done" ELSE "await"]
        /\ stage' = [stage EXCEPT ![j] = IF body.raised THEN 0 ELSE 1]
        /\ art' = [art EXCEPT ![j].script =
                     IF request[j].with_script THEN "str" ELSE "none"]
        /\ hist' = Logged([hist EXCEPT ![j].storage = body.raised], r.file)
        /\ UNCHANGED << request, submitted, comp, probeVars >>

\* the pipeline from the return of the awaited collaborator call with
\* outcome o to its next suspension or to the end of its try block
ReturnBody(j, o, ws) ==
  LET st == Stages(request[j])
      i == stage[j]
      r0 == Run(videos_db, db_file)
  IN IF o.raised THEN [r0 EXCEPT !.raised = TRUE]
     ELSE IF i < Len(st)
          THEN UpdateProgress(r0, j, st[i + 1].progress, st[i + 1].label, ws)
          ELSE Finish(r0, j, FinalPath(j), ws)

\* goes_on: the pipeline suspends at its next collaborator call; otherwise
\* it has ended, by completion or in its except clause
ReturnCall(j, W) ==
  /\ pc[j] = "await"
  /\ \E o \in CallOutcomes(j), ws \in W :
     \E body \in {ReturnBody(j, o, ws)} :
     \E r \in {Guarded(body, j, IF o.raised THEN o.msg ELSE MsgOSError, ws)} :
     \E goes_on \in {~body.raised /\ stage[j] < Len(Stages(request[j]))} :
     \E h \in {hist[j]} :
        /\ Commit(j, r, ws)
        /\ pc' = [pc EXCEPT ![j] = IF goes_on THEN "await" ELSE "done"]
        /\ stage' = [stage EXCEPT ![j] = IF goes_on THEN stage[j] + 1 ELSE stage[j]]
        /\ art' = [art EXCEPT ![j] = o.art]
        /\ hist' = Logged([hist EXCEPT ![j] =
                     [h EXCEPT !.failure = h.failure \/ o.failure,
                               !.env_failure = h.env_failure
                                                 \/ (o.failure /\ o.msg # MsgTypeError),
                               !.raised = h.raised \/ o.raised,
                               !.storage = h.storage \/ (body.raised /\ ~o.raised),
                               !.timeouts = h.timeouts \/ o.timeouts,
                               !.terminal_overwritten =
                                  h.terminal_overwritten
                                    \/ (body.raised
                                        /\ body.db[j].status # "processing"),
                               !.stage_after_failure =
                                  h.stage_after_failure
                                    \/ ((h.failure \/ o.failure) /\ goes_on)]],
                   r.file)
        /\ UNCHANGED << request, submitted, comp, probeVars >>

-----------------------------------------------------------------------------
(* Calls of the composition operations on their own                        *)

\* what a call finds: which inputs exist, whether ffprobe prints a duration,
\* the exit status of the first and second tool command, whether the demo
\* asset exists
Env(clips, screen, avatar, audio, probe_ok, ok1, ok2, demo) ==
  [clips |-> clips, screen |-> screen, avatar |-> avatar, audio |-> audio,
   probe_ok |-> probe_ok, ok1 |-> ok1, ok2 |-> ok2, demo |-> demo]

\* the files one video_id owns in videos/
TempPath(j) ==
  CASE j = "j1" -> "videos/temp_j1.mp4"
    [] j = "j2" -> "videos/temp_j2.mp4"
    [] OTHER -> "videos/temp__.mp4"

ConcatPath(j) ==
  CASE j = "j1" -> "videos/concat_j1.txt"
    [] j = "j2" -> "videos/concat_j2.txt"
    [] OTHER -> "videos/concat__.txt"

OwnPaths(j) == {FinalPath(j), TempPath(j), ConcatPath(j)}

\* what a file holds: the kind of content, the step that wrote it and the
\* number of clips that went into it
Data(kind, by, n) == [kind |-> kind, by |-> by, n |-> n]

Absent == Data("absent", "none", 0)

NoFiles == [p \in UNION {OwnPaths(j) : j \in JobIds} |-> Absent]

Unlink(fs, path) == [fs EXCEPT ![path] = Absent]

\* an ffmpeg command that lacks -y: it exits non-zero when the output exists
FfmpegNoOverwrite(fs, out, data, ok) ==
  IF fs[out] # Absent THEN [fs |-> fs, raised |-> TRUE]
  ELSE IF ok THEN [fs |-> [fs EXCEPT ![out] = data], raised |-> FALSE]
  ELSE [fs |-> [fs EXCEPT ![out] = Data("partial", data.by, 0)], raised |-> TRUE]

\* ['ffmpeg', '-y', ..., out]: the output is overwritten; a run that exits
\* non-zero can leave a partial output behind
FfmpegWrites(fs, out, data, ok) ==
  IF ok THEN [fs |-> [fs EXCEPT ![out] = data], raised |-> FALSE]
  ELSE [fs |-> [fs EXCEPT ![out] = Data("partial", data.by, 0)], raised |-> TRUE]

\* _create_demo_fallback: shutil.copy or open(output_path, "wb") replace the file
FallbackWrites(fs, out, demo_asset) ==
  [fs EXCEPT ![out] = Data(CreateDemoFallback(demo_asset), "fallback", 0)]

\* the cleanup of compose_video: both unlink(missing_ok=True)
Cleanup(fs, j) == Unlink(Unlink(fs, TempPath(j)), ConcatPath(j))

\* the files compose_video leaves
ComposeVideoFiles(fs, j, clips, audio, concat_ok, mux_ok, demo_asset) ==
  LET valid == SelectSeq(clips, LAMBDA b : b) IN
  IF clips = << >> \/ ~audio THEN FallbackWrites(fs, FinalPath(j), demo_asset)
  ELSE IF valid = << >> THEN FallbackWrites(fs, FinalPath(j), demo_asset)
  ELSE LET listed == [fs EXCEPT ![ConcatPath(j)] = Data("list", "open", Len(valid))]
           c1 == FfmpegWrites(listed, TempPath(j),
                              Data("video", "concat", listed[ConcatPath(j)].n), concat_ok)
       IN
       IF c1.raised THEN FallbackWrites(Cleanup(c1.fs, j), FinalPath(j), demo_asset)
       ELSE LET c2 == FfmpegWrites(c1.fs, FinalPath(j),
                                   Data("encoded", "mux", c1.fs[TempPath(j)].n), mux_ok)
            IN
            IF c2.raised THEN FallbackWrites(Cleanup(c2.fs, j), FinalPath(j), demo_asset)
            ELSE Cleanup(c2.fs, j)

\* the files the three one-command operations leave: the checks of the
\* inputs and ffprobe come first, then one ffmpeg run writes the final path
OneCommandFiles(fs, j, by, inputs, probe_ok, ok, demo_asset) ==
  IF ~inputs \/ ~probe_ok THEN FallbackWrites(fs, FinalPath(j), demo_asset)
  ELSE LET c == FfmpegWrites(fs, FinalPath(j), Data("encoded", by, 1), ok) IN
       IF c.raised THEN FallbackWrites(c.fs, FinalPath(j), demo_asset) ELSE c.fs

\* the files a call of operation op leaves, given what it finds
ComposeFiles(op, fs, j, env) ==
  CASE op = "compose_video" ->
         ComposeVideoFiles(fs, j, env.clips, env.audio, env.ok1, env.ok2, env.demo)
    [] op = "compose_video_with_loop" ->
         OneCommandFiles(fs, j, "loop", env.avatar /\ env.audio, env.probe_ok,
                         env.ok1, env.demo)
    [] op = "mux_screen_recording_with_audio" ->
         OneCommandFiles(fs, j, "mux", env.screen /\ env.audio, TRUE, env.ok1, env.demo)
    [] op = "overlay_avatar_on_screen_recording" ->
         OneCommandFiles(fs, j, "overlay", env.screen /\ env.avatar /\ env.audio,
                         env.probe_ok, env.ok1, env.demo)
    [] OTHER -> fs

\* a call in a videos/ directory that holds none of the job's files yet
Called(op, j, env, result) ==
  [op |-> op, id |-> j, env |-> env, result |-> result,
   before |-> NoFiles, fs |-> ComposeFiles(op, NoFiles, j, env), again |-> FALSE]

NoComp == [op |-> "none", id |-> "j1",
           env |-> Env(<< >>, TRUE, TRUE, TRUE, TRUE, TRUE, TRUE, TRUE),
           result |-> Result("j1", "header", << >>, FALSE, FALSE),
           before |-> NoFiles, fs |-> NoFiles, again |-> FALSE]

CallComposeVideo ==
  \E j \in JobIds, clips \in ClipLists, audio \in BOOLEAN, ok1 \in BOOLEAN,
     ok2 \in BOOLEAN, demo \in BOOLEAN :
    /\ comp' = Called("compose_video", j,
                       Env(clips, TRUE, TRUE, audio, TRUE, ok1, ok2, demo),
                       ComposeVideo(j, clips, audio, ok1, ok2, demo))
    /\ UNCHANGED << storeVars, probeVars >>

CallComposeVideoWithLoop ==
  \E j \in JobIds, avatar \in BOOLEAN, audio \in BOOLEAN, probe_ok \in BOOLEAN,
     ok1 \in BOOLEAN, demo \in BOOLEAN :
    /\ comp' = Called("compose_video_with_loop", j,
                       Env(<< >>, TRUE, avatar, audio, probe_ok, ok1, TRUE, demo),
                       ComposeVideoWithLoop(j, avatar, audio, probe_ok, ok1, demo))
    /\ UNCHANGED << storeVars, probeVars >>

CallMuxScreenRecordingWithAudio ==
  \E j \in JobIds, screen \in BOOLEAN, audio \in BOOLEAN, ok1 \in BOOLEAN,
     demo \in BOOLEAN :
    /\ comp' = Called("mux_screen_recording_with_audio", j,
                       Env(<< >>, screen, TRUE, audio, TRUE, ok1, TRUE, demo),
                       MuxScreenRecordingWithAudio(j, screen, audio, ok1, demo))
    /\ UNCHANGED << storeVars, probeVars >>

CallOverlayAvatarOnScreenRecording ==
  \E j \in JobIds, screen \in BOOLEAN, avatar \in BOOLEAN, audio \in BOOLEAN,
     probe_ok \in BOOLEAN, ok1 \in BOOLEAN, demo \in BOOLEAN :
    /\ comp' = Called("overlay_avatar_on_screen_recording", j,
                       Env(<< >>, screen, avatar, audio, probe_ok, ok1, TRUE, demo),
                       OverlayAvatarOnScreenRecording(j, screen, avatar, audio,
                                                      probe_ok, ok1, demo))
    /\ UNCHANGED << storeVars, probeVars >>

\* the operation of the last call invoked once more: the same video_id, the
\* same input files, the same tool behaviour, on the files the call left
CallAgain ==
  /\ comp.op # "none"
  /\ ~comp.again
  /\ comp' = [comp EXCEPT !.before = comp.fs,
                          !.fs = ComposeFiles(comp.op, comp.fs, comp.id, comp.env),
                          !.again = TRUE]
  /\ UNCHANGED << storeVars, probeVars >>

-----------------------------------------------------------------------------
(* Query endpoints and update_progress called on their own                 *)

\* an answer: the HTTP status code and detail (code 0: a plain return
\* value), whether a file was served, whether the call raised
Answer(code, detail, served, raised) ==
  [code |-> code, detail |-> detail, served |-> served, raised |-> raised]

\* a call and its answer, with what the store held for the id when it was made
Call(op, id, db, a) ==
  [op |-> op, id |-> id, known |-> id \in DOMAIN db,
   status_seen |-> IF id \in DOMAIN db THEN db[id].status ELSE NULL, answer |-> a]

NoResp == Call("none", "j1", EmptyDb, Answer(0, NULL, FALSE, FALSE))

HttpOk == 200

HttpBadRequest == 400

HttpNotFound == 404

\* get_video_status(video_id)
GetVideoStatusAnswer(db, id) ==
  IF id \notin DOMAIN db THEN Answer(HttpNotFound, "Video not found", FALSE, TRUE)
  ELSE Answer(HttpOk, NULL, FALSE, FALSE)

\* a retrieval that serves the file of any job in the store
DeliverAnyStatus(db, id, file_exists) ==
  IF id \notin DOMAIN db THEN Answer(HttpNotFound, "Video not found", FALSE, TRUE)
  ELSE IF ~file_exists THEN Answer(HttpNotFound, "Video file not found", FALSE, TRUE)
  ELSE Answer(HttpOk, NULL, TRUE, FALSE)

\* stream_video(video_id) and download_video(video_id): the same tests, then
\* a FileResponse on video_path
Deliver(db, id, file_exists) ==
  IF id \notin DOMAIN db THEN Answer(HttpNotFound, "Video not found", FALSE, TRUE)
  ELSE IF db[id].status # "completed"
       THEN Answer(HttpBadRequest, "Video not ready", FALSE, TRUE)
  ELSE IF ~file_exists THEN Answer(HttpNotFound, "Video file not found", FALSE, TRUE)
  ELSE Answer(HttpOk, NULL, TRUE, FALSE)

GetVideoStatus ==
  \E id \in JobIds :
    /\ resp' = Call("get_video_status", id, videos_db, GetVideoStatusAnswer(videos_db, id))
    /\ UNCHANGED << storeVars, comp, av, lk, boot, sideVars >>

StreamVideo ==
  \E id \in JobIds, file_exists \in BOOLEAN :
    /\ resp' = Call("stream_video", id, videos_db, Deliver(videos_db, id, file_exists))
    /\ UNCHANGED << storeVars, comp, av, lk, boot, sideVars >>

DownloadVideo ==
  \E id \in JobIds, file_exists \in BOOLEAN :
    /\ resp' = Call("download_video", id, videos_db, Deliver(videos_db, id, file_exists))
    /\ UNCHANGED << storeVars, comp, av, lk, boot, sideVars >>

ProgressValues == {0, 50, 100}

\* update_progress called with an id the store does not hold
UpdateProgressUnknown ==
  \E id \in JobIds \ DOMAIN videos_db, p \in ProgressValues, ws \in NoWriteFailure :
  \E r \in {UpdateProgress(Run(videos_db, db_file), id, p, << "", LblDone >>, ws)} :
    /\ resp' = Call("update_progress", id, videos_db,
                    Answer(0, NULL, FALSE, r.raised))
    /\ videos_db' = r.db
    /\ db_file' = r.file
    /\ last_write' = IF r.lastw = "none" THEN last_write ELSE r.lastw
    /\ UNCHANGED << pc, stage, request, art, hist, write_fails, submitted,
                    comp, av, lk, boot, sideVars >>

-----------------------------------------------------------------------------
(* create_avatar_video, one poll at a time                                 *)

\* `for i in range(60)` of DIDService and `max_attempts = 60` of HeyGenService
DIDPollCeiling == 60

max_attempts == 60

\* seconds of asyncio.sleep before each status request
DIDPollInterval == 5

HeyGenPollInterval == 2

PollCeiling(provider) == IF provider = "heygen" THEN max_attempts ELSE DIDPollCeiling

PollInterval(provider) ==
  IF provider = "heygen" THEN HeyGenPollInterval ELSE DIDPollInterval

\* what a status request can give: a status text of either service, a text
\* neither of them knows, or an exception (transport error, HTTP error
\* status, a body that is not JSON, HeyGen's code # 100)
PollStatuses ==
  {"done", "completed", "error", "failed", "processing", "unknown", "exception"}

\* the branch one iteration of the polling loop takes on a status
PollBranch(provider, status) ==
  IF status = "exception" THEN "error"
  ELSE IF provider = "heygen"
       THEN IF status = "completed" THEN "done"
            ELSE IF status \in {"failed", "error"} THEN "error"
            ELSE "continue"
       ELSE IF status = "done" THEN "done"
            ELSE IF status = "error" THEN "error"
            ELSE "continue"

\* a loop that makes one iteration more than its range
ExpiredLate(provider, attempts) == attempts > PollCeiling(provider)

\* the for loop is exhausted
Expired(provider, attempts) == attempts >= PollCeiling(provider)

\* the value or exception create_avatar_video ends with once the remote
\* side is settled
CreateAvatarVideo(provider, remote, placeholder) ==
  IF provider = "heygen" THEN HeyGenCreateAvatarVideo(remote)
  ELSE DIDCreateAvatarVideo(remote, placeholder)

NoAv ==
  [phase |-> "idle", provider |-> "did", placeholder |-> FALSE, attempts |-> 0,
   elapsed |-> 0, exit |-> "none", clip |-> "none", msg |-> NULL]

\* the call has left the loop with `exit`: its return value or exception
Leave(a, exit) ==
  LET r == CreateAvatarVideo(a.provider, exit, a.placeholder)
  IN  [a EXCEPT !.phase = IF r.raised THEN "raised" ELSE "returned",
                !.exit = exit, !.clip = r.clip, !.msg = r.msg]

\* create_avatar_video up to the first asyncio.sleep: the API key test and
\* the request that submits the render
AvSubmit ==
  \E provider \in Providers, placeholder \in BOOLEAN,
     submit \in {"accepted", "rejected", "no_key"} :
    /\ av.phase # "polling"
    /\ \E a \in {[NoAv EXCEPT !.provider = provider, !.placeholder = placeholder]} :
         av' = CASE submit = "accepted" -> [a EXCEPT !.phase = "polling"]
                 [] submit = "rejected" -> Leave(a, "error")
                 [] submit = "no_key" -> Leave(a, "no_key")
    /\ UNCHANGED << storeVars, comp, resp, lk, boot, sideVars >>

\* one iteration of the polling loop: sleep, status request, branch; the
\* download of a finished clip can fail
AvPoll ==
  \E status \in PollStatuses, download_ok \in BOOLEAN :
    /\ av.phase = "polling"
    /\ \E a \in {[av EXCEPT !.attempts = @ + 1,
                             !.elapsed = @ + PollInterval(av.provider)]},
          b \in {PollBranch(av.provider, status)} :
         av' = IF b = "done" THEN Leave(a, IF download_ok THEN "done" ELSE "error")
               ELSE IF b = "error" THEN Leave(a, "error")
               ELSE IF Expired(a.provider, a.attempts) THEN Leave(a, "timeout")
               ELSE a
    /\ UNCHANGED << storeVars, comp, resp, lk, boot, sideVars >>

-----------------------------------------------------------------------------
(* db_lock, one statement at a time                                        *)

\* the coroutine that owns db_lock, the coroutine the event loop is running,
\* the statement each pipeline is at, and whether a snapshot was written
\* while a record of another job had part of a mutation applied
NoLock ==
  [holder |-> NULL, running |-> NULL, at |-> [j \in JobIds |-> "suspended"],
   torn |-> FALSE]

\* statements after which a record holds part of a mutation
Partial == {"set_stage", "set_result"}

\* the event loop gives control to a pipeline that was suspended: at its
\* start, in a collaborator call that has returned, or waiting for db_lock
LkResume(j) ==
  /\ pc[j] \in {"queued", "await"}
  /\ lk.running = NULL
  /\ lk.at[j] \in {"suspended", "acquire"}
  /\ lk.at[j] = "suspended" => stage[j] < Len(Stages(request[j]))
  /\ lk' = [lk EXCEPT !.running = j,
                      !.at[j] = IF @ = "suspended" THEN "set_progress" ELSE @]
  /\ UNCHANGED << storeVars, comp, resp, av, boot, sideVars >>

\* update_progress:  videos_db[video_id]["progress"] = progress
LkSetProgress(j) ==
  /\ lk.running = j
  /\ lk.at[j] = "set_progress"
  /\ videos_db' = [videos_db EXCEPT
                     ![j].progress = Stages(request[j])[stage[j] + 1].progress]
  /\ lk' = [lk EXCEPT !.at[j] = "set_stage"]
  /\ UNCHANGED << db_file, pc, stage, request, art, hist, write_fails, last_write,
                  submitted, comp, resp, av, boot, sideVars >>

\* update_progress:  videos_db[video_id]["current_stage"] = stage
LkSetStage(j) ==
  /\ lk.running = j
  /\ lk.at[j] = "set_stage"
  /\ videos_db' = [videos_db EXCEPT
                     ![j].current_stage = Stages(request[j])[stage[j] + 1].label]
  /\ lk' = [lk EXCEPT !.at[j] = "acquire"]
  /\ UNCHANGED << db_file, pc, stage, request, art, hist, write_fails, last_write,
                  submitted, comp, resp, av, boot, sideVars >>

\* save_videos_db:  async with db_lock  takes a free lock without
\* suspending and suspends on a lock another coroutine owns
LkAcquire(j) ==
  /\ lk.running = j
  /\ lk.at[j] = "acquire"
  /\ lk' = IF lk.holder = NULL
           THEN [lk EXCEPT !.holder = j, !.at[j] = "write"]
           ELSE [lk EXCEPT !.running = NULL]
  /\ UNCHANGED << storeVars, comp, resp, av, boot, sideVars >>

\* save_videos_db:  open + json.dump  of the whole map
LkWrite(j) ==
  /\ lk.running = j
  /\ lk.at[j] = "write"
  /\ db_file' = WriteFile(videos_db, db_file, "ok")
  /\ last_write' = "ok"
  /\ lk' = [lk EXCEPT !.at[j] = "release",
                      !.torn = @ \/ \E k \in JobIds \ {j} : lk.at[k] \in Partial]
  /\ UNCHANGED << videos_db, pc, stage, request, art, hist, write_fails,
                  submitted, comp, resp, av, boot, sideVars >>

\* the end of  async with db_lock ; then the next collaborator call
\* suspends the pipeline, or the completion assignments follow, or the
\* pipeline is over
LkRelease(j) ==
  /\ lk.running = j
  /\ lk.at[j] = "release"
  /\ \E last \in {stage[j] + 1 = Len(Stages(request[j]))},
        over \in {videos_db[j].status = "completed"} :
       /\ lk' = [lk EXCEPT !.holder = NULL,
                           !.running = IF last /\ ~over THEN j ELSE NULL,
                           !.at[j] = IF last /\ ~over THEN "set_status"
                                     ELSE "suspended"]
       /\ pc' = [pc EXCEPT ![j] = IF over THEN "done" ELSE "await"]
       /\ stage' = [stage EXCEPT ![j] = IF over THEN @ ELSE @ + 1]
  /\ UNCHANGED << videos_db, db_file, request, art, hist, write_fails, last_write,
                  submitted, comp, resp, av, boot, sideVars >>

\* the completion:  videos_db[video_id]["status"] = "completed"
LkSetStatus(j) ==
  /\ lk.running = j
  /\ lk.at[j] = "set_status"
  /\ videos_db' = [videos_db EXCEPT ![j].status = "completed"]
  /\ lk' = [lk EXCEPT !.at[j] = "set_result"]
  /\ UNCHANGED << db_file, pc, stage, request, art, hist, write_fails, last_write,
                  submitted, comp, resp, av, boot, sideVars >>

\* the completion: video_url, video_path and completed_at
LkSetResult(j) ==
  /\ lk.running = j
  /\ lk.at[j] = "set_result"
  /\ videos_db' = Completed(videos_db, j, "final")
  /\ lk' = [lk EXCEPT !.at[j] = "acquire"]
  /\ UNCHANGED << db_file, pc, stage, request, art, hist, write_fails, last_write,
                  submitted, comp, resp, av, boot, sideVars >>

-----------------------------------------------------------------------------
(* Concurrent pipelines: the event loop and the files they share           *)

Voices == {"tr_female_professional", "tr_male_professional"}

Personas == {"professional_female", "casual_male"}

\* the two branches that differ in their tools: avatar mode with HeyGen and
\* compose_video, custom_avatar_overlay mode with D-ID and the overlay
SharedModes == {"avatar", "custom_avatar_overlay"}

\* file names, as the services build them
AudioPath(voice_type) == << "videos/audio_", voice_type, ".mp3" >>

DemoAudioPath == << "videos/demo_audio.mp3" >>

\* the remote service names each render; no two renders share a name
HeyGenClipPath(video_id) == << "videos/heygen_", video_id, ".mp4" >>

DIDClipPath(talk_id) == << "videos/avatar_", talk_id, ".mp4" >>

DemoHeyGenPath(avatar_type) == << "videos/demo_heygen_", avatar_type, ".mp4" >>

DemoAvatarPath(avatar_type) == << "videos/demo_avatar_", avatar_type, ".mp4" >>

FinalVideoPath(video_id) == << "videos/final_", video_id, ".mp4" >>

Paths ==
  {AudioPath(v) : v \in Voices} \cup {DemoAudioPath}
    \cup {HeyGenClipPath(j) : j \in JobIds} \cup {DIDClipPath(j) : j \in JobIds}
    \cup {DemoHeyGenPath(a) : a \in Personas} \cup {DemoAvatarPath(a) : a \in Personas}
    \cup {FinalVideoPath(j) : j \in JobIds}

NoPath == << >>

\* text_to_speech(text, voice_type): the file it writes and returns
TtsPath(j, voice_type, tts_ok) ==
  IF tts_ok THEN AudioPath(voice_type) ELSE DemoAudioPath

\* the job that blocks the event loop, the call each pipeline is in, its
\* submission, the files it holds for its composition, who wrote each file
\* last ("env" for a file that was there before), the sound that went into
\* each deliverable, and what went wrong
NoSched ==
  [holder |-> NULL,
   at |-> [j \in JobIds |-> "idle"],
   cfg |-> [j \in JobIds |-> [voice |-> "tr_female_professional",
                              persona |-> "professional_female", mode |-> "avatar"]],
   audio |-> [j \in JobIds |-> NoPath],
   clip |-> [j \in JobIds |-> NoPath],
   files |-> [f \in Paths |->
                IF f \in {DemoAvatarPath(a) : a \in Personas} THEN "env" ELSE NULL],
   track |-> [j \in JobIds |-> "none"],
   overwritten |-> FALSE,
   foreign |-> FALSE]

\* a write of file f by job j: it destroys an artifact another pipeline is
\* still holding for its composition
Overwrites(j, f) ==
  \E k \in JobIds \ {j} :
    /\ sched.at[k] \notin {"idle", "done"}
    /\ f \in {sched.audio[k], sched.clip[k]}
    /\ sched.files[f] = k

\* the sound in the audio file f: the 24-byte header _create_demo_audio
\* writes, or the narration of the job that wrote the file last
Sound(s, f) == IF f = DemoAudioPath THEN "demo_audio" ELSE s.files[f]

WriteArtifact(s, j, f) ==
  [s EXCEPT !.files[f] = j, !.overwritten = @ \/ Overwrites(j, f)]

\* a pipeline starts and awaits the narration request
ShSubmit(j) ==
  \E voice \in Voices, persona \in Personas, mode \in SharedModes :
    /\ sched.holder = NULL
    /\ sched.at[j] = "idle"
    /\ sched' = [sched EXCEPT !.at[j] = "tts",
                              !.cfg[j] = [voice |-> voice, persona |-> persona,
                                          mode |-> mode]]
    /\ UNCHANGED << storeVars, comp, resp, av, lk, boot, media, svc >>

\* text_to_speech writes the narration and returns; the pipeline goes on to
\* await the render request
ShTts(j) ==
  \E tts_ok \in BOOLEAN :
  \E f \in {TtsPath(j, sched.cfg[j].voice, tts_ok)} :
    /\ sched.holder = NULL
    /\ sched.at[j] = "tts"
    /\ sched' = [WriteArtifact(sched, j, f) EXCEPT !.audio[j] = f, !.at[j] = "render"]
    /\ UNCHANGED << storeVars, comp, resp, av, lk, boot, media, svc >>

\* the call the pipeline makes after its clip: compose_video starts ffmpeg
\* in the executor, overlay_avatar_on_screen_recording first runs ffprobe
\* with subprocess.run
AfterClip(s, j) ==
  IF s.cfg[j].mode = "avatar" THEN [s EXCEPT !.at[j] = "ffmpeg"]
  ELSE [s EXCEPT !.at[j] = "ffprobe", !.holder = j]

\* create_avatar_video ends: the downloaded clip; for HeyGen after a failure
\* _create_demo_video, which runs ffmpeg with subprocess.run; for D-ID after
\* a failure the placeholder, or an exception that ends the pipeline
ShRender(j) ==
  \E remote_ok \in BOOLEAN, placeholder \in BOOLEAN :
    /\ sched.holder = NULL
    /\ sched.at[j] = "render"
    /\ sched' =
         IF sched.cfg[j].mode = "avatar"
         THEN IF remote_ok
              THEN AfterClip([WriteArtifact(sched, j, HeyGenClipPath(j))
                                EXCEPT !.clip[j] = HeyGenClipPath(j)], j)
              ELSE [sched EXCEPT !.at[j] = "demo_tool", !.holder = j]
         ELSE IF remote_ok
              THEN AfterClip([WriteArtifact(sched, j, DIDClipPath(j))
                                EXCEPT !.clip[j] = DIDClipPath(j)], j)
              ELSE IF placeholder
                   THEN AfterClip([sched EXCEPT !.clip[j] =
                                     DemoAvatarPath(sched.cfg[j].persona)], j)
                   ELSE [sched EXCEPT !.at[j] = "done"]
    /\ UNCHANGED << storeVars, comp, resp, av, lk, boot, media, svc >>

\* the subprocess.run of HeyGenService._create_demo_video returns
ShDemoDone(j) ==
  \E f \in {DemoHeyGenPath(sched.cfg[j].persona)} :
    /\ sched.holder = j
    /\ sched.at[j] = "demo_tool"
    /\ sched' = AfterClip([WriteArtifact(sched, j, f)
                             EXCEPT !.clip[j] = f, !.holder = NULL], j)
    /\ UNCHANGED << storeVars, comp, resp, av, lk, boot, media, svc >>

\* the subprocess.run of ffprobe returns; _run_ffmpeg starts the overlay
\* command in the executor
ShProbeDone(j) ==
  /\ sched.holder = j
  /\ sched.at[j] = "ffprobe"
  /\ sched' = [sched EXCEPT !.holder = NULL, !.at[j] = "ffmpeg"]
  /\ UNCHANGED << storeVars, comp, resp, av, lk, boot, media, svc >>

\* ffmpeg has read the narration and the clip and written the deliverable
ShFfmpegDone(j) ==
  /\ sched.holder = NULL
  /\ sched.at[j] = "ffmpeg"
  /\ sched' = [WriteArtifact(sched, j, FinalVideoPath(j))
                 EXCEPT !.at[j] = "done",
                        !.track[j] = Sound(sched, sched.audio[j]),
                        !.foreign = @ \/ sched.files[sched.audio[j]] # j
                                      \/ sched.files[sched.clip[j]] \notin {j, "env"}]
  /\ UNCHANGED << storeVars, comp, resp, av, lk, boot, media, svc >>

-----------------------------------------------------------------------------
(* The media tool: what the commands of video_composer.py produce          *)

\* durations are counted in ticks; a second has TicksPerSecond of them
MaxDur == 4

TicksPerSecond == 2

Durations == 1..MaxDur

Min(S) == CHOOSE x \in S : \A y \in S : x <= y

Max(S) == CHOOSE x \in S : \A y \in S : x >= y

\* a video stream is a sequence of segments: len ticks shown from source src
Seg(src, len) == [src |-> src, len |-> len]

RECURSIVE Duration(_)
Duration(video) ==
  IF video = << >> THEN 0 ELSE Head(video).len + Duration(Tail(video))

\* the first t ticks of a stream
RECURSIVE Truncate(_, _)
Truncate(video, t) ==
  IF video = << >> \/ t <= 0 THEN << >>
  ELSE IF Head(video).len >= t THEN << Seg(Head(video).src, t) >>
  ELSE << Head(video) >> \o Truncate(Tail(video), t - Head(video).len)

\* -stream_loop -1: the input starts again each time it ends; t ticks are read
RECURSIVE StreamLoop(_, _)
StreamLoop(video, t) ==
  IF t <= 0 \/ Duration(video) = 0 THEN << >>
  ELSE Truncate(video, t) \o StreamLoop(video, t - Duration(video))

\* a media file: its video stream and the length of its audio stream
MediaFile(video, audio) == [video |-> video, audio |-> audio]

\* an avatar clip on disk carries its picture and its own sound
ClipFile(clip) == MediaFile(<< Seg(clip.src, clip.len) >>, clip.len)

AudioFile(Da) == MediaFile(<< >>, Da)

\* the clip paths handed to compose_video: clip i of the list, its duration,
\* and whether the file is on disk
AvatarClips ==
  UNION {[1..n -> [len : Durations, exists : BOOLEAN]] : n \in 0..MaxClips}

Named(avatar_clips) ==
  [i \in DOMAIN avatar_clips |->
     [src |-> i, len |-> avatar_clips[i].len, exists |-> avatar_clips[i].exists]]

ValidClipsReversed(avatar_clips) ==
  LET valid == SelectSeq(avatar_clips, LAMBDA clip : clip.exists)
  IN  [i \in DOMAIN valid |-> valid[Len(valid) + 1 - i]]

ValidClips(avatar_clips) == SelectSeq(avatar_clips, LAMBDA clip : clip.exists)

\* -f concat: the files of the list, one after the other in the listed order
RECURSIVE ConcatDemuxer(_)
ConcatDemuxer(files) ==
  IF files = << >> THEN MediaFile(<< >>, 0)
  ELSE LET rest == ConcatDemuxer(Tail(files))
       IN  MediaFile(ClipFile(Head(files)).video \o rest.video,
                     ClipFile(Head(files)).audio + rest.audio)

\* an ffmpeg command, by the options that decide what comes out: the inputs
\* (numbered from 1 here, from 0 on the command line), the inputs read with
\* -stream_loop -1, the input mapped as video, the input mapped as audio
\* (0 for -an), -shortest, and -t as a set (empty when the option is absent)
Cmd(inputs, stream_loop, map_v, map_a, shortest, t) ==
  [inputs |-> inputs, stream_loop |-> stream_loop, map_v |-> map_v,
   map_a |-> map_a, shortest |-> shortest, t |-> t]

ConcatCmd(valid_clips) ==
  Cmd(<< ConcatDemuxer(valid_clips) >>, {}, 1, 0, FALSE, {})

MuxCmdNoShortest(temp_video, audio_file) ==
  Cmd(<< temp_video, audio_file >>, {}, 1, 2, FALSE, {})

MuxCmd(temp_video, audio_file) ==
  Cmd(<< temp_video, audio_file >>, {}, 1, 2, TRUE, {})

ScreenMuxCmd(screen_video, audio_file) ==
  Cmd(<< screen_video, audio_file >>, {}, 1, 2, TRUE, {})

LoopCmd(avatar_video, audio_file, audio_duration) ==
  Cmd(<< avatar_video, audio_file >>, {1}, 1, 2, FALSE, {audio_duration})

\* [0:v][avatar]overlay: the frames of the main input, the tile laid over them
OverlayCmd(screen_video, avatar_video, audio_file, audio_duration) ==
  Cmd(<< screen_video, avatar_video, audio_file >>, {2}, 1, 3, FALSE,
      {audio_duration})

\* what ffmpeg writes for a command: each mapped stream runs to the end of
\* its input, a looped input has no end; -shortest stops at the first stream
\* that ends, -t stops at the given time
Ffmpeg(cmd) ==
  LET looped == cmd.map_v \in cmd.stream_loop
      video  == cmd.inputs[cmd.map_v].video
      ends   == (IF looped THEN {} ELSE {Duration(video)})
                  \cup (IF cmd.map_a = 0 THEN {}
                        ELSE {cmd.inputs[cmd.map_a].audio})
      stops  == IF looped /\ ~cmd.shortest THEN cmd.t
                ELSE cmd.t \cup {IF cmd.shortest THEN Min(ends) ELSE Max(ends)}
      stop   == Min(stops)
  IN  MediaFile(IF looped THEN StreamLoop(video, stop)
                ELSE Truncate(video, stop),
                IF cmd.map_a = 0 THEN 0
                ELSE Min({cmd.inputs[cmd.map_a].audio, stop}))

\* the duration a player shows for a file
FileDuration(file) == Max({Duration(file.video), file.audio})

\* ffprobe prints the duration in seconds with a fraction
Ffprobe(file) ==
  << FileDuration(file) \div TicksPerSecond, FileDuration(file) % TicksPerSecond >>

ParseWholeSeconds(stdout) == stdout[1] * TicksPerSecond

\* float(result.stdout.strip()), and str() of it on the command line
ParseDuration(stdout) == stdout[1] * TicksPerSecond + stdout[2]

\* the picture: the tile cut from the avatar clip and the recorded page
TileSize == 300

Radius == 150

Margin == 20

Opaque == 255

ScreenWidth == 1920

ScreenHeight == 1080

Positions == {"bottom_right", "bottom_left", "top_right", "top_left"}

\* sqrt() of the expression evaluator, to the whole number below it: against
\* the whole number Radius, lt() answers the same for both
RECURSIVE NewtonSqrt(_, _)
NewtonSqrt(n, x) ==
  LET y == (x + n \div x) \div 2 IN IF y >= x THEN x ELSE NewtonSqrt(n, y)

Sqrt(n) == IF n = 0 THEN 0 ELSE NewtonSqrt(n, n)

Pow(x, y) == IF y = 2 THEN x * x ELSE x

GeqAlphaLte(X, Y) ==
  IF Sqrt(Pow(X - Radius, 2) + Pow(Y - Radius, 2)) <= Radius THEN Opaque ELSE 0

\* a='if(lt(sqrt(pow(X-150,2)+pow(Y-150,2)),150),255,0)'
GeqAlpha(X, Y) ==
  IF Sqrt(Pow(X - Radius, 2) + Pow(Y - Radius, 2)) < Radius THEN Opaque ELSE 0

\* overlay={pos}: where the tile's corner lands, W and H the main input's
\* size, w and h the tile's
OverlayPosition(position, W, H, w, h) ==
  LET positions == [bottom_right |-> << W - w - Margin, H - h - Margin >>,
                    bottom_left  |-> << Margin, H - h - Margin >>,
                    top_right    |-> << W - w - Margin, Margin >>,
                    top_left     |-> << Margin, Margin >>]
  IN  IF position \in Positions THEN positions[position]
      ELSE positions["bottom_right"]

\* the overlay filter: a frame of the size of its main input, in which a
\* pixel of the tile covers the main input's pixel by its alpha
OverlayFrame(main, tile, position) ==
  [size |-> main,
   at   |-> OverlayPosition(position, main[1], main[2], tile[1], tile[2])]

OverlayPixel(alpha, tile_pixel, main_pixel) ==
  IF alpha = Opaque THEN tile_pixel
  ELSE IF alpha = 0 THEN main_pixel
  ELSE "blend"

NoMedia == [op |-> "none"]

MediaOverlayAvatarOnScreenRecording ==
  /\ media.op = "none"
  /\ \E position \in Positions \cup {"center"}, Ds \in Durations,
        Dc \in Durations, Da \in Durations :
       /\ \E audio_duration \in {ParseDuration(Ffprobe(AudioFile(Da)))} :
            media' = [op |-> "overlay_avatar_on_screen_recording",
                      fallback |-> FALSE, position |-> position,
                      background |-> << ScreenWidth, ScreenHeight >>,
                      video |-> MediaFile(<< Seg("screen", Ds) >>, 0),
                      audio |-> AudioFile(Da),
                      frame |-> OverlayFrame(<< ScreenWidth, ScreenHeight >>,
                                             << TileSize, TileSize >>, position),
                      final |-> Ffmpeg(OverlayCmd(
                                  MediaFile(<< Seg("screen", Ds) >>, 0),
                                  ClipFile(Seg("avatar", Dc)), AudioFile(Da),
                                  audio_duration))]
  /\ UNCHANGED << storeVars, comp, resp, av, lk, boot, sched, svc >>

\* the filter graph at one pixel of the tile
MediaFilterPixel ==
  /\ media.op = "none"
  /\ \E X \in 0..(TileSize - 1), Y \in 0..(TileSize - 1) :
       /\ \E alpha \in {GeqAlpha(X, Y)} :
            media' = [op |-> "pixel", X |-> X, Y |-> Y, alpha |-> alpha,
                      shown |-> OverlayPixel(alpha, "avatar", "background")]
  /\ UNCHANGED << storeVars, comp, resp, av, lk, boot, sched, svc >>

\* compose_video with its files on disk and a tool that works
MediaComposeVideo ==
  /\ media.op = "none"
  /\ \E avatar_clips \in AvatarClips, Da \in Durations :
       /\ \E valid_clips \in {ValidClips(Named(avatar_clips))} :
            IF valid_clips = << >>
            THEN media' = [op |-> "compose_video", fallback |-> TRUE,
                           clips |-> Named(avatar_clips)]
            ELSE \E temp \in {Ffmpeg(ConcatCmd(valid_clips))} :
                   media' = [op |-> "compose_video", fallback |-> FALSE,
                             clips |-> Named(avatar_clips), video |-> temp,
                             audio |-> AudioFile(Da),
                             final |-> Ffmpeg(MuxCmd(temp, AudioFile(Da)))]
  /\ UNCHANGED << storeVars, comp, resp, av, lk, boot, sched, svc >>

MediaMuxScreenRecording ==
  /\ media.op = "none"
  /\ \E Dv \in Durations, Da \in Durations :
       /\ \E screen \in {MediaFile(<< Seg("screen", Dv) >>, 0)} :
            media' = [op |-> "mux_screen_recording_with_audio",
                      fallback |-> FALSE, video |-> screen,
                      audio |-> AudioFile(Da),
                      final |-> Ffmpeg(ScreenMuxCmd(screen, AudioFile(Da)))]
  /\ UNCHANGED << storeVars, comp, resp, av, lk, boot, sched, svc >>

MediaComposeVideoWithLoop ==
  /\ media.op = "none"
  /\ \E Dc \in Durations, Da \in Durations :
       /\ \E audio_duration \in {ParseDuration(Ffprobe(AudioFile(Da)))} :
            media' = [op |-> "compose_video_with_loop", fallback |-> FALSE,
                      video |-> ClipFile(Seg("avatar", Dc)),
                      audio |-> AudioFile(Da),
                      final |-> Ffmpeg(LoopCmd(ClipFile(Seg("avatar", Dc)),
                                               AudioFile(Da), audio_duration))]
  /\ UNCHANGED << storeVars, comp, resp, av, lk, boot, sched, svc >>

-----------------------------------------------------------------------------
(* The avatar services on their own: the text they submit, the placeholder *)
(* of HeyGen, and render_avatar_segments over them                         *)

DIDWordLimit == 100

HeyGenCharLimit == 1500

\* the separators between the words of a text
Separators == {<< " " >>, << " ", " " >>, << "\n" >>}

\* a text of n words of wordlen letters, with sep between them
Words(n, wordlen, sep) ==
  LET L == wordlen + Len(sep)
      all == [i \in 1..(n * L) |->
                IF ((i - 1) % L) < wordlen THEN "w"
                ELSE sep[((i - 1) % L) - wordlen + 1]]
  IN  IF n = 0 THEN << >> ELSE SubSeq(all, 1, n * L - Len(sep))

\* a text of len letters
Letters(len) == [i \in 1..len |-> "w"]

IsSpace(c) == c \in {" ", "\n", "\t"}

\* the positions at which a run of characters that are not white space starts
Starts(text) ==
  {i \in 1..Len(text) :
     ~IsSpace(text[i]) /\ (i = 1 \/ IsSpace(text[i - 1]))}

\* the run that starts at position s
RunAt(text, s) ==
  SubSeq(text, s,
         CHOOSE e \in s..Len(text) :
           /\ e = Len(text) \/ IsSpace(text[e + 1])
           /\ \A m \in s..e : ~IsSpace(text[m]))

\* the runs that start at the positions starts, in the order of the text
RunsOf(text, starts) ==
  [k \in 1..Cardinality(starts) |->
     RunAt(text, CHOOSE s \in starts :
                   Cardinality({t \in starts : t <= s}) = k)]

\* str.split(): the runs of characters that are not white space
Split(text) == RunsOf(text, Starts(text))

\* sep.join(words), for the words from position a to position b
RECURSIVE JoinRange(_, _, _, _)
JoinRange(sep, words, a, b) ==
  IF a > b THEN << >>
  ELSE IF a = b THEN words[a]
  ELSE JoinRange(sep, words, a, (a + b) \div 2) \o sep
         \o JoinRange(sep, words, (a + b) \div 2 + 1, b)

Join(sep, words) == JoinRange(sep, words, 1, Len(words))

\* s[:n]
Slice(s, n) == SubSeq(s, 1, Min({n, Len(s)}))

DIDTextLimitedOffByOne(text) ==
  Join(<< " " >>, Slice(Split(text), DIDWordLimit + 1))

\* text_limited = " ".join(text.split()[:100])
DIDTextLimited(text) == Join(<< " " >>, Slice(Split(text), DIDWordLimit))

\* truncated_text = text[:1500]
HeyGenTruncatedText(text) == Slice(text, HeyGenCharLimit)

SubmittedText(provider, text) ==
  IF provider = "heygen" THEN HeyGenTruncatedText(text) ELSE DIDTextLimited(text)

\* what the generation of the substitute clip comes to: ffmpeg writes it,
\* exits non-zero, or is not installed
ToolResults == {"ok", "fails", "absent"}

\* HeyGenService._create_demo_video: copy the bundled asset, else run ffmpeg
\* with check=False; stale tells whether the path held a file before
HeyGenCreateDemoVideo(avatar_type, demo_source, tool, stale) ==
  IF demo_source
  THEN [raised |-> FALSE, path |-> DemoHeyGenPath(avatar_type), exists |-> TRUE]
  ELSE CASE tool = "ok" ->
              [raised |-> FALSE, path |-> DemoHeyGenPath(avatar_type),
               exists |-> TRUE]
         [] tool = "fails" ->
              [raised |-> FALSE, path |-> DemoHeyGenPath(avatar_type),
               exists |-> stale]
         [] OTHER ->
              [raised |-> TRUE, path |-> NoPath, exists |-> stale]

\* the result of each section's remote render as create_avatar_video meets
\* it: without an API key no request is made and the demo path is taken
Reached(enabled, results) ==
  [i \in DOMAIN results |-> IF enabled THEN results[i] ELSE "error"]

NoSvc == [op |-> "none"]

SvcSubmitText ==
  /\ svc.op = "none"
  /\ \E provider \in Providers :
     \E text \in {Words(n, wordlen, sep) :
                    n \in {0, 1, 2, DIDWordLimit - 1, DIDWordLimit,
                           DIDWordLimit + 1},
                    wordlen \in {1, 2}, sep \in Separators}
                 \cup {<< " " >> \o Words(DIDWordLimit, 1, << " " >>),
                       Words(2, 1, << " " >>) \o << "\n" >>}
                 \cup {Letters(len) :
                         len \in {HeyGenCharLimit - 1, HeyGenCharLimit,
                                  HeyGenCharLimit + 1}} :
       svc' = [op |-> "create_avatar_video", provider |-> provider,
               text |-> text, submitted |-> SubmittedText(provider, text)]
  /\ UNCHANGED << storeVars, comp, resp, av, lk, boot, sched, media >>

SvcCreateDemoVideo ==
  /\ svc.op = "none"
  /\ \E avatar_type \in Personas, demo_source \in BOOLEAN,
        tool \in ToolResults, stale \in BOOLEAN :
       svc' = [op |-> "_create_demo_video", avatar_type |-> avatar_type,
               demo_source |-> demo_source, tool |-> tool, stale |-> stale,
               result |-> HeyGenCreateDemoVideo(avatar_type, demo_source,
                                                tool, stale)]
  /\ UNCHANGED << storeVars, comp, resp, av, lk, boot, sched, media >>

SvcRenderAvatarSegments ==
  /\ svc.op = "none"
  /\ \E provider \in Providers, enabled \in BOOLEAN, script \in {"str", "dict"},
        placeholder \in BOOLEAN, n \in 0..MaxSections :
     \E results \in [1..n -> RemoteResults] :
       svc' = [op |-> "render_avatar_segments", provider |-> provider,
               enabled |-> enabled, script |-> script,
               placeholder |-> placeholder,
               results |-> Reached(enabled, results),
               result |-> RenderAvatarSegments(provider, script,
                                               Reached(enabled, results),
                                               placeholder)]
  /\ UNCHANGED << storeVars, comp, resp, av, lk, boot, sched, media >>

\* exception texts: up to MaxTokens pieces in a row, among them the two
\* words in either case, the words cut in two, and other characters
MaxTokens == 3

Tokens ==
  {<< "T", "i", "m", "e", "o", "u", "t" >>, << "t", "i", "m", "e" >>,
   << "O", "U", "T" >>, << "a", "p", "i" >>, << "A", "P" >>, << "I" >>,
   << " " >>, << "x" >>}

ExceptionTexts ==
  {Join(<< >>, ts) : ts \in UNION {[1..n -> Tokens] : n \in 0..MaxTokens}}

\* the two except clauses given the same str(e)
SvcClassify ==
  /\ svc.op = "none"
  /\ \E text \in ExceptionTexts :
       svc' = [op |-> "classify", text |-> text,
               generated |-> Classify(text),
               approved |-> ClassifyWithScript(text),
               lowered |-> Classify(Lower(text))]
  /\ UNCHANGED << storeVars, comp, resp, av, lk, boot, sched, media >>

-----------------------------------------------------------------------------
(* Start of the process                                                    *)

MaxRestarts == 1

\* a dump that writes str(v) for a value that is not a number
JsonValueStr(field, v) ==
  IF field = "progress" THEN << "number", v >>
  ELSE IF field = "current_stage" THEN << "string", v >>
  ELSE IF v = NULL THEN << "string", "None" >>
  ELSE << "string", v >>

\* json.dump of one field of a record: a JSON number, string or null
JsonValue(field, v) ==
  IF field = "progress" THEN << "number", v >>
  ELSE IF field = "current_stage" THEN << "string", v >>
  ELSE IF v = NULL THEN << "null", NULL >>
  ELSE << "string", v >>

\* json.dump(db, f, indent=2): an object of objects
JsonDump(db) ==
  [k \in DOMAIN db |-> [field \in DOMAIN db[k] |-> JsonValue(field, db[k][field])]]

\* json.load of such a document
JsonLoad(doc) ==
  [k \in DOMAIN doc |->
     [field \in DOMAIN doc[k] |->
        IF doc[k][field][1] = "null" THEN NULL ELSE doc[k][field][2]]]

\* what open + json.load meet at startup: the file as the program left it,
\* or a file the environment removed, made unreadable or replaced
Damages == {"none", "missing", "io_error", "bad_syntax", "bad_bytes", "non_object"}

\* the file the program left: none before the first write, the snapshot of
\* the last successful write, or the rest of a write that failed
FileKind(f, lastw, damage) ==
  IF damage # "none" THEN damage
  ELSE IF f.valid THEN "snapshot"
  ELSE IF lastw = "none" THEN "missing"
  ELSE "bad_syntax"

\* load_videos_db(): {} when the file does not exist; json.load's value
\* whatever its type; {} and a warning on json.JSONDecodeError and IOError;
\* any other exception (UnicodeDecodeError) leaves the function
LoadVideosDb(f, kind) ==
  CASE kind = "missing" -> [raised |-> FALSE, warned |-> FALSE, dict |-> TRUE, db |-> EmptyDb]
    [] kind = "snapshot" ->
         [raised |-> FALSE, warned |-> FALSE, dict |-> TRUE, db |-> JsonLoad(JsonDump(f.content))]
    [] kind \in {"io_error", "bad_syntax"} ->
         [raised |-> FALSE, warned |-> TRUE, dict |-> TRUE, db |-> EmptyDb]
    [] kind = "bad_bytes" ->
         [raised |-> TRUE, warned |-> FALSE, dict |-> FALSE, db |-> EmptyDb]
    [] kind = "non_object" ->
         [raised |-> FALSE, warned |-> FALSE, dict |-> FALSE, db |-> EmptyDb]

\* the process: running or not, what the last start found and did, and
\* whether a submission since then failed on the loaded value
NoBoot ==
  [state |-> "up", n |-> 0, kind |-> "missing", warned |-> FALSE, dict |-> TRUE,
   empty |-> TRUE, same |-> TRUE, rejected |-> FALSE]

Up == boot.state = "up" /\ boot.dict

\* the process ends and is started again, on the file it left or on one the
\* environment damaged meanwhile: the background tasks are gone and the
\* module level runs  videos_db = load_videos_db()
Restart ==
  \E damage \in Damages :
  \E kind \in {FileKind(db_file, last_write, damage)} :
  \E l \in {LoadVideosDb(db_file, kind)} :
    /\ boot.n < MaxRestarts
    /\ boot' = [state |-> IF l.raised THEN "crashed" ELSE "up", n |-> boot.n + 1,
                kind |-> kind, warned |-> l.warned, dict |-> l.dict,
                empty |-> (l.dict /\ l.db = EmptyDb),
                same |-> (l.dict /\ l.db = videos_db), rejected |-> FALSE]
    /\ videos_db' = l.db
    /\ pc' = [j \in JobIds |-> IF j \notin DOMAIN l.db THEN "idle"
                                ELSE IF pc[j] = "done" THEN "done" ELSE "orphan"]
    /\ stage' = [j \in JobIds |-> IF j \in DOMAIN l.db THEN stage[j] ELSE 0]
    /\ request' = [j \in JobIds |-> IF j \in DOMAIN l.db THEN request[j] ELSE NoRequest]
    /\ art' = [j \in JobIds |-> IF j \in DOMAIN l.db THEN art[j] ELSE NoArt]
    /\ hist' = [j \in JobIds |-> IF j \in DOMAIN l.db THEN hist[j] ELSE NoHist]
    /\ db_file' = IF damage = "none" THEN db_file ELSE CorruptFile
    /\ last_write' = CASE damage = "none" -> last_write
                        [] damage = "missing" -> "none"
                        [] OTHER -> "damaged"
    /\ UNCHANGED << write_fails, submitted, comp, resp, av, lk, sideVars >>

\* create_video when the loaded value is not a dict: the item assignment
\* videos_db[video_id] = {...} raises TypeError
SubmitNotDict ==
  /\ boot.state = "up"
  /\ ~boot.dict
  /\ boot' = [boot EXCEPT !.rejected = TRUE]
  /\ UNCHANGED << storeVars, comp, resp, av, lk, sideVars >>

-----------------------------------------------------------------------------
(* Specifications                                                          *)

Init ==
  /\ videos_db = EmptyDb
  /\ db_file = [valid |-> FALSE, content |-> EmptyDb]
  /\ pc = [j \in JobIds |-> "idle"]
  /\ stage = [j \in JobIds |-> 0]
  /\ request = [j \in JobIds |-> NoRequest]
  /\ art = [j \in JobIds |-> NoArt]
  /\ hist = [j \in JobIds |-> NoHist]
  /\ write_fails = 0
  /\ last_write = "none"
  /\ submitted = 0
  /\ comp = NoComp
  /\ resp = NoResp
  /\ av = NoAv
  /\ lk = NoLock
  /\ boot = NoBoot
  /\ sched = NoSched
  /\ media = NoMedia
  /\ svc = NoSvc

\* one job, store writes may fail
Next ==
  \/ CreateVideo("j1", Budgeted)
  \/ CreateVideoWithScript("j1", Budgeted)
  \/ StartPipeline("j1", Budgeted)
  \/ ReturnCall("j1", Budgeted)

Spec == Init /\ [][Next]_vars

\* concurrent jobs on the one event loop, store writes succeed
NextJobs ==
  \E j \in JobIds :
    \/ CreateVideo(j, NoWriteFailure)
    \/ CreateVideoWithScript(j, NoWriteFailure)
    \/ StartPipeline(j, NoWriteFailure)
    \/ ReturnCall(j, NoWriteFailure)

\* the event loop runs every task that is ready, and every awaited
\* collaborator call returns (each HTTP client has a timeout, each poll loop
\* is bounded)
SpecJobs ==
  /\ Init
  /\ [][NextJobs]_vars
  /\ \A j \in JobIds : WF_vars(StartPipeline(j, NoWriteFailure))
                       /\ WF_vars(ReturnCall(j, NoWriteFailure))

\* one job, and the query endpoints and update_progress called at any time
NextApi ==
  \/ Next
  \/ GetVideoStatus
  \/ StreamVideo
  \/ DownloadVideo
  \/ UpdateProgressUnknown

SpecApi == Init /\ [][NextApi]_vars

\* two pipelines whose store updates run one statement at a time
NextLock ==
  \/ \E j \in JobIds : lk.running = NULL /\ CreateVideo(j, NoWriteFailure)
  \/ \E j \in JobIds : LkResume(j)
  \/ \E j \in JobIds : LkSetProgress(j)
  \/ \E j \in JobIds : LkSetStage(j)
  \/ \E j \in JobIds : LkAcquire(j)
  \/ \E j \in JobIds : LkWrite(j)
  \/ \E j \in JobIds : LkRelease(j)
  \/ \E j \in JobIds : LkSetStatus(j)
  \/ \E j \in JobIds : LkSetResult(j)

SpecLock == Init /\ [][NextLock]_vars

\* two pipelines and the files and the event loop they share
NextShared ==
  \/ \E j \in JobIds : ShSubmit(j)
  \/ \E j \in JobIds : ShTts(j)
  \/ \E j \in JobIds : ShRender(j)
  \/ \E j \in JobIds : ShDemoDone(j)
  \/ \E j \in JobIds : ShProbeDone(j)
  \/ \E j \in JobIds : ShFfmpegDone(j)

SpecShared == Init /\ [][NextShared]_vars

\* calls of the media tool with files of every length
NextMedia ==
  \/ MediaComposeVideo
  \/ MediaMuxScreenRecording
  \/ MediaComposeVideoWithLoop
  \/ MediaOverlayAvatarOnScreenRecording
  \/ MediaFilterPixel

SpecMedia == Init /\ [][NextMedia]_vars

\* calls of the avatar services with texts, keys and files of every kind
NextService ==
  \/ SvcSubmitText
  \/ SvcCreateDemoVideo
  \/ SvcRenderAvatarSegments
  \/ SvcClassify

SpecService == Init /\ [][NextService]_vars

\* one job in a process that can be started again
NextBoot ==
  \/ Up /\ Next
  \/ Restart
  \/ SubmitNotDict

SpecBoot == Init /\ [][NextBoot]_vars

\* restarts of a process whose store writes all succeed; the event loop of
\* a running process runs every task that is ready and every awaited call
\* returns
NextRestart ==
  \/ Up /\ CreateVideo("j1", NoWriteFailure)
  \/ Up /\ CreateVideoWithScript("j1", NoWriteFailure)
  \/ Up /\ StartPipeline("j1", NoWriteFailure)
  \/ Up /\ ReturnCall("j1", NoWriteFailure)
  \/ Restart
  \/ SubmitNotDict

SpecRestart ==
  /\ Init
  /\ [][NextRestart]_vars
  /\ WF_vars(Up /\ StartPipeline("j1", NoWriteFailure))
  /\ WF_vars(Up /\ ReturnCall("j1", NoWriteFailure))

\* calls of create_avatar_video; a sleep and a status request come to an end
\* (asyncio.sleep, httpx client with a timeout)
NextAvatar ==
  \/ AvSubmit
  \/ AvPoll

SpecAvatar == Init /\ [][NextAvatar]_vars /\ WF_vars(AvPoll)

\* calls of the composition operations
NextComposer ==
  \/ CallComposeVideo
  \/ CallComposeVideoWithLoop
  \/ CallMuxScreenRecordingWithAudio
  \/ CallOverlayAvatarOnScreenRecording
  \/ CallAgain

SpecComposer == Init /\ [][NextComposer]_vars

-----------------------------------------------------------------------------
(* Properties                                                              *)

Terminal == {"completed", "failed"}

NonDecreasing(s) == \A i \in 1..(Len(s) - 1) : s[i] <= s[i + 1]

NoDuplicates(s) == \A i \in DOMAIN s : \A k \in DOMAIN s : s[i] = s[k] => i = k

\* the text-valued fields of a record hold no exception text
NoRawText(rec) ==
  /\ rec.error \notin RawTexts
  /\ rec.current_stage[1] \notin RawTexts
  /\ rec.current_stage[2] \notin RawTexts
  /\ rec.status \notin RawTexts
  /\ rec.video_url \notin RawTexts
  /\ rec.video_path \notin RawTexts
  /\ rec.created_at \notin RawTexts
  /\ rec.completed_at \notin RawTexts
  /\ rec.approved_script \notin RawTexts

\* C1: for every job, in every mode and in both pipelines, no step lowers the
\* progress of a job whose status is processing, and the progress values of
\* the successive snapshots of the store file never decrease.
C1_ProgressNonDecreasing ==
  [][\A j \in DOMAIN videos_db :
       videos_db[j].status = "processing" =>
         /\ j \in DOMAIN videos_db'
         /\ videos_db'[j].progress >= videos_db[j].progress
         /\ NonDecreasing(hist'[j].log)]_vars

C1_Witness ==
  \E j \in DOMAIN videos_db :
    /\ videos_db[j].status = "processing"
    /\ videos_db[j].progress = 85
    /\ Len(hist[j].log) >= 5

\* C2: in every reachable state a job's video_url is non-null if and only if
\* its status is completed, also after a write of the store file has failed.
C2_OutputIffCompleted ==
  \A j \in DOMAIN videos_db :
    (videos_db[j].video_url # NULL) <=> (videos_db[j].status = "completed")

\* C3: once a job's status has become completed or failed it never changes
\* again: the except clause of a pipeline never runs on a record whose status
\* has already left processing, so no failed record carries completed_at.
C3_TerminalIsFinal ==
  \A j \in DOMAIN videos_db :
    /\ ~hist[j].terminal_overwritten
    /\ videos_db[j].status = "failed" => videos_db[j].completed_at = NULL

\* C4: the error field of a failed job is one of the three fixed category
\* strings, and no text field of any record, in memory or in the store file,
\* holds the text of an exception.
C4_SanitizedError ==
  \A j \in DOMAIN videos_db :
    /\ videos_db[j].status = "failed" => videos_db[j].error \in Categories
    /\ videos_db[j].status = "failed" =>
         videos_db[j].current_stage = << LblFail, videos_db[j].error >>
    /\ NoRawText(videos_db[j])
    /\ (db_file.valid /\ j \in DOMAIN db_file.content) => NoRawText(db_file.content[j])

C4_Witness ==
  \E j \in DOMAIN videos_db :
    /\ hist[j].raised
    /\ videos_db[j].status = "failed"
    /\ videos_db[j].error = CatApi
    /\ db_file.valid /\ j \in DOMAIN db_file.content
    /\ db_file.content[j].error = CatApi

\* C5 (Scenario A): a screen_recording job without approved script, none of
\* whose collaborator calls fails (and none of whose store writes fails),
\* ends completed with a non-null video_url, and the store file has shown
\* exactly the progress values 0 (the new record), 10, 20, 50, 70, 90, 100.
C5_ScenarioA ==
  \A j \in DOMAIN videos_db :
    ( /\ pc[j] = "done"
      /\ request[j].mode = "screen_recording"
      /\ ~request[j].with_script
      /\ ~hist[j].failure
      /\ ~hist[j].storage )
    => /\ videos_db[j].status = "completed"
       /\ videos_db[j].video_url # NULL
       /\ videos_db[j].progress = 100
       /\ hist[j].log = << 0, 10, 20, 50, 70, 90, 100 >>

C5_Witness ==
  \E j \in DOMAIN videos_db :
    /\ pc[j] = "done"
    /\ request[j].mode = "screen_recording"
    /\ ~request[j].with_script
    /\ ~hist[j].failure
    /\ ~hist[j].storage
    /\ videos_db[j].status = "completed"

\* C6 (Scenario B): a job all of whose avatar renders timed out while no
\* placeholder clip existed ends failed with the API-unavailable category
\* and without exception text in its record.
C6_ScenarioB ==
  \A j \in DOMAIN videos_db :
    (pc[j] = "done" /\ hist[j].timeouts) =>
      /\ videos_db[j].status = "failed"
      /\ videos_db[j].error = CatApi
      /\ NoRawText(videos_db[j])

\* C7: N submissions create N records under N distinct ids; a step of one
\* job leaves every other job's record as it is; a store write leaves in the
\* file the whole map, every job's latest update included; and every job
\* whose pipeline was scheduled reaches completed or failed.
C7_IndependentJobs ==
  /\ [](/\ Cardinality(DOMAIN videos_db) = submitted
        /\ \A j \in DOMAIN videos_db : videos_db[j].video_id = j
        /\ last_write = "ok" => (db_file.valid /\ db_file.content = videos_db))
  /\ [][\A j \in DOMAIN videos_db :
          (pc'[j] = pc[j] /\ stage'[j] = stage[j]) =>
            (j \in DOMAIN videos_db' /\ videos_db'[j] = videos_db[j])]_vars
  /\ \A j \in JobIds :
       (pc[j] = "queued") ~> (pc[j] = "done" /\ videos_db[j].status \in Terminal)

C7_Witness ==
  /\ submitted = 2
  /\ pc["j1"] = "await" /\ stage["j1"] >= 3
  /\ pc["j2"] = "await" /\ stage["j2"] >= 3
  /\ db_file.content = videos_db

MissingInput ==
  CASE comp.op = "compose_video" ->
         \/ ~comp.env.audio
         \/ \A i \in DOMAIN comp.env.clips : ~comp.env.clips[i]
    [] comp.op = "compose_video_with_loop" -> ~comp.env.avatar \/ ~comp.env.audio
    [] comp.op = "mux_screen_recording_with_audio" -> ~comp.env.screen \/ ~comp.env.audio
    [] comp.op = "overlay_avatar_on_screen_recording" ->
         ~comp.env.screen \/ ~comp.env.avatar \/ ~comp.env.audio
    [] OTHER -> FALSE

\* a composition call met a tool command that failed
ToolFailed ==
  /\ ~MissingInput
  /\ CASE comp.op = "compose_video" -> ~comp.env.ok1 \/ ~comp.env.ok2
       [] comp.op = "compose_video_with_loop" -> ~comp.env.probe_ok \/ ~comp.env.ok1
       [] comp.op = "mux_screen_recording_with_audio" -> ~comp.env.ok1
       [] comp.op = "overlay_avatar_on_screen_recording" ->
            ~comp.env.probe_ok \/ ~comp.env.ok1
       [] OTHER -> FALSE

\* C9: no composition call runs a tool command twice; a call that meets a
\* missing input or a failing tool command raises nothing and returns the
\* job's final path videos/final_<id>.mp4 holding a placeholder.
C9_NoRetryPlaceholder ==
  comp.op # "none" =>
    /\ NoDuplicates(comp.result.cmds)
    /\ (MissingInput \/ ToolFailed) =>
         /\ ~comp.result.raised
         /\ comp.result.path = FinalPath(comp.id)
         /\ comp.result.content \in {"demo_asset", "header"}

C9_Witness ==
  /\ comp.op = "compose_video"
  /\ ToolFailed
  /\ comp.result.cmds = << "concat", "mux" >>
  /\ comp.result.path = FinalPath(comp.id)
  /\ comp.result.content = "header"

Damaged == {"io_error", "bad_syntax", "bad_bytes", "non_object"}

\* C11: whenever the store file is unreadable or malformed at startup, the
\* process is up afterwards with an empty job map and a logged warning, and
\* no submission fails on the loaded value.
C11_BootsEmptyWithWarning ==
  (boot.n > 0 /\ boot.kind \in Damaged) =>
    /\ boot.state = "up"
    /\ boot.dict
    /\ boot.empty
    /\ boot.warned
    /\ ~boot.rejected

\* C12 as stated: the file the program left always reloads to the map the
\* process held before it was restarted.
C12_RestartReloadsEqual ==
  [][\A damage \in {"none"} :
       boot'.n > boot.n /\ boot'.kind = FileKind(db_file, last_write, damage)
         => boot'.same /\ videos_db' = videos_db]_vars

\* C12: after every store mutation whose write succeeded the file holds a
\* full snapshot equal to the job map, and a restart from that file reloads
\* a map equal to the one held before.
C12_GoodWriteReloadsEqual ==
  /\ [](last_write = "ok" =>
          /\ db_file.valid
          /\ JsonLoad(JsonDump(db_file.content)) = videos_db
          /\ LoadVideosDb(db_file, FileKind(db_file, last_write, "none")).db = videos_db)
  /\ [][(boot'.n > boot.n /\ boot'.kind = "snapshot" /\ last_write = "ok")
          => boot'.same /\ videos_db' = videos_db]_vars

C12_Witness ==
  /\ boot.n > 0
  /\ boot.kind = "snapshot"
  /\ boot.same
  /\ last_write = "ok"
  /\ \E j \in DOMAIN videos_db : videos_db[j].status = "completed" /\ pc[j] = "done"

\* a record changed in memory and not yet written
Unwritten(j) == lk.at[j] \in {"set_stage", "acquire", "set_result"}

\* C13: a pipeline changes the job map only while it owns the lock (lock,
\* mutate, persist, unlock); the mutate-and-persist sequences of two jobs
\* do not interleave and no snapshot is written while another job's
\* mutation is partially applied.
C13_MutationInsideLock ==
  /\ \A j \in JobIds : Unwritten(j) => lk.holder = j
  /\ Cardinality({j \in JobIds : lk.at[j] # "suspended"}) <= 1
  /\ ~lk.torn

\* the part of C13 that is about the order of events
SerializedUpdates ==
  /\ Cardinality({j \in JobIds : lk.at[j] # "suspended"}) <= 1
  /\ ~lk.torn
  /\ lk.holder # NULL => lk.holder = lk.running

\* C14: a job's collaborator call of a stage is awaited only when the store
\* file already shows that stage's progress and label for the job, and a step
\* moves a job from stage i to stage i + 1 of its mode's list or leaves its
\* stage alone: one stage at a time, in order, none skipped.
C14_StagesInOrder ==
  /\ [](\A j \in DOMAIN videos_db :
          pc[j] = "await" =>
            /\ stage[j] \in 1..Len(Stages(request[j]))
            /\ videos_db[j].status = "processing"
            /\ db_file.valid
            /\ j \in DOMAIN db_file.content
            /\ db_file.content[j].progress = Stages(request[j])[stage[j]].progress
            /\ db_file.content[j].current_stage = Stages(request[j])[stage[j]].label)
  /\ [][\A j \in JobIds :
          \/ stage'[j] = stage[j]
          \/ /\ stage'[j] = stage[j] + 1
             /\ pc[j] \in {"queued", "await"}
             /\ pc'[j] = "await"]_vars

C14_Witness ==
  \E j \in DOMAIN videos_db :
    /\ pc[j] = "await"
    /\ stage[j] = 5
    /\ write_fails = 0
    /\ db_file.content[j].progress = 90
    /\ hist[j].log = << 0, 10, 20, 50, 70, 90 >>

\* C15: update_progress called with an id that is not in the store reports
\* NotFound to its caller, and leaves the map and the file as they are.
C15_UpdateUnknownNotFound ==
  (resp.op = "update_progress" /\ ~resp.known) => resp.answer.raised

Queries == {"get_video_status", "stream_video", "download_video"}

\* C16: every query for an id the store does not hold is answered 404 'Video
\* not found'; a retrieval for a job that is not completed is answered 400
\* 'Video not ready'; a file is served only for a completed job; and a query
\* leaves the store as it is.
C16_QueriesGuarded ==
  /\ [](resp.op \in Queries =>
          /\ ~resp.known =>
               /\ resp.answer.code = HttpNotFound
               /\ resp.answer.detail = "Video not found"
               /\ ~resp.answer.served
          /\ (resp.op # "get_video_status" /\ resp.known
                 /\ resp.status_seen # "completed") =>
               /\ resp.answer.code = HttpBadRequest
               /\ resp.answer.detail = "Video not ready"
               /\ ~resp.answer.served
          /\ resp.answer.served =>
               (resp.known /\ resp.status_seen = "completed"
                  /\ resp.op # "get_video_status"))
  /\ [][(resp' # resp /\ resp'.op \in Queries) =>
          UNCHANGED << videos_db, db_file >>]_vars

C16_Witness ==
  /\ resp.op = "download_video"
  /\ resp.known
  /\ resp.status_seen = "failed"
  /\ videos_db[resp.id].video_url # NULL
  /\ resp.answer.code = HttpBadRequest

\* C17: a store write that fails is only logged: a job none of whose
\* collaborator calls raised is never failed, whatever its store writes did.
C17_WriteFailureOnlyLogged ==
  \A j \in DOMAIN videos_db :
    (hist[j].storage /\ ~hist[j].raised) =>
      videos_db[j].status # "failed"

\* C18: with either backend, a call that met a remote error or ran out of
\* polls returns the cached placeholder clip of the persona if there is one
\* and raises to its caller if there is none.
C18_PlaceholderOrFatal ==
  (av.phase \in {"returned", "raised"} /\ av.exit \in {"error", "timeout"}) =>
    IF av.placeholder THEN av.phase = "returned" /\ av.clip = "demo"
    ELSE av.phase = "raised"

Left == av.phase \in {"returned", "raised"}

\* C19: a call makes at most 60 status polls, one per fixed interval of
\* sleep, and every call that is polling leaves the loop, through Done,
\* Error or Timeout, whatever statuses the remote service reports.
C19_PollingTerminates ==
  /\ [](/\ av.attempts <= PollCeiling(av.provider)
        /\ av.elapsed = av.attempts * PollInterval(av.provider)
        /\ (Left /\ av.exit # "no_key") => av.exit \in RemoteResults
        /\ av.exit = "timeout" => av.attempts = PollCeiling(av.provider)
        /\ (av.phase = "polling") = (av.exit = "none" /\ av # NoAv))
  /\ (av.phase = "polling") ~> Left

C19_Witness ==
  /\ av.provider = "heygen"
  /\ av.exit = "timeout"
  /\ av.attempts = 60
  /\ av.elapsed = 120
  /\ av.phase = "returned"

\* C31: in every reachable state, in the store and in every snapshot of it on
\* disk, a job's error field is non-null exactly when its status is failed
C31_ErrorIffFailed ==
  /\ \A j \in DOMAIN videos_db :
       videos_db[j].error # NULL <=> videos_db[j].status = "failed"
  /\ db_file.valid =>
       \A j \in DOMAIN db_file.content :
         db_file.content[j].error # NULL <=> db_file.content[j].status = "failed"

C31_Witness ==
  \E j \in DOMAIN videos_db :
    /\ videos_db[j].status = "failed"
    /\ videos_db[j].error \in Categories
    /\ db_file.valid
    /\ j \in DOMAIN db_file.content
    /\ db_file.content[j].error = videos_db[j].error

\* C32: a job record is created once, at its submission and under its own
\* id; afterwards only a step of that job's pipeline changes it, so a step of
\* one job leaves every other job's record as it was; its id never changes
\* and it is never removed from the store
C32_RecordOwnedByItsPipeline ==
  [][/\ \A k \in DOMAIN videos_db :
         /\ k \in DOMAIN videos_db'
         /\ videos_db'[k].video_id = k
         /\ videos_db'[k] # videos_db[k] =>
              /\ pc[k] \in {"queued", "await"}
              /\ pc'[k] # pc[k] \/ stage'[k] # stage[k]
              /\ \A other \in DOMAIN videos_db \ {k} :
                   videos_db'[other] = videos_db[other]
     /\ \A k \in DOMAIN videos_db' \ DOMAIN videos_db :
         /\ pc[k] = "idle"
         /\ videos_db'[k].video_id = k
         /\ videos_db'[k].status = "processing"
         /\ \A other \in DOMAIN videos_db :
              videos_db'[other] = videos_db[other]]_vars

C32_Witness ==
  /\ DOMAIN videos_db = JobIds
  /\ videos_db["j1"].status = "completed"
  /\ videos_db["j1"].video_id = "j1"
  /\ pc["j2"] = "queued"
  /\ videos_db["j2"] = NewRecord("j2", videos_db["j2"].approved_script)

\* C33: render_avatar_segments never raises on a script whose sections are
\* avatar sections, for either provider, with or without an API key and with
\* or without a placeholder clip: it returns the list of the clips that were
\* made, one for each section whose render did not fail
C33_RenderNeverRaises ==
  (svc.op = "render_avatar_segments" /\ svc.script = "dict") =>
    /\ ~svc.result.raised
    /\ svc.result.msg = NULL
    /\ Len(svc.result.order) = svc.result.clips
    /\ svc.result.clips + svc.result.skipped = Len(svc.results)
    /\ \A i \in 1..Len(svc.result.order) : svc.result.order[i] \in DOMAIN svc.results

C33_Witness ==
  /\ svc.op = "render_avatar_segments"
  /\ svc.script = "dict"
  /\ svc.provider = "did"
  /\ svc.enabled
  /\ ~svc.placeholder
  /\ svc.results = << "timeout", "done" >>
  /\ ~svc.result.raised
  /\ svc.result.order = << 2 >>

\* C34: HeyGenService._create_demo_video returns, and a video file exists at
\* the path it returns, whether or not the bundled demo asset is present and
\* whether or not the tool succeeds in generating a substitute
C34_DemoVideoExists ==
  svc.op = "_create_demo_video" =>
    /\ ~svc.result.raised
    /\ svc.result.path = DemoHeyGenPath(svc.avatar_type)
    /\ svc.result.exists

IsPrefix(a, b) == Len(a) <= Len(b) /\ SubSeq(b, 1, Len(a)) = a

WithinLimit(provider, text) ==
  IF provider = "heygen" THEN Len(text) <= 1500 ELSE Len(Split(text)) <= 100

\* C35 as stated: the text submitted to a backend is a prefix of the text
\* passed to create_avatar_video, within the backend's limit (100 words for
\* D-ID, 1500 characters for HeyGen), and the whole text when the text is
\* within the limit
C35_SubmittedIsPrefix ==
  svc.op = "create_avatar_video" =>
    /\ IsPrefix(svc.submitted, svc.text)
    /\ WithinLimit(svc.provider, svc.submitted)
    /\ WithinLimit(svc.provider, svc.text) => svc.submitted = svc.text

\* C35: the text submitted to HeyGen is the first 1500 characters of the text
\* (the whole text when it has no more); the text submitted to D-ID is made of
\* the first 100 words of the text (all of them when it has no more), in
\* their order, with one space between two words and none around them
C35_SubmittedIsLimitedText ==
  svc.op = "create_avatar_video" =>
    IF svc.provider = "heygen"
    THEN /\ IsPrefix(svc.submitted, svc.text)
         /\ Len(svc.submitted) <= 1500
         /\ Len(svc.text) <= 1500 => svc.submitted = svc.text
    ELSE \E given \in {Split(svc.text)}, sent \in {Split(svc.submitted)} :
           /\ IsPrefix(sent, given)
           /\ Len(sent) <= 100
           /\ Len(given) <= 100 => sent = given
           /\ Len(given) > 100 => Len(sent) = 100
           /\ Len(svc.submitted)
                = Len(Join(<< >>, sent)) + (IF sent = << >> THEN 0 ELSE Len(sent) - 1)
           /\ \A i \in 1..Len(svc.submitted) :
                IsSpace(svc.submitted[i]) => svc.submitted[i] = " "

C35_Witness ==
  /\ svc.op = "create_avatar_video"
  /\ svc.provider = "did"
  /\ Len(Split(svc.text)) = 101
  /\ Len(Split(svc.submitted)) = 100
  /\ \E i \in 1..Len(svc.text) : svc.text[i] = "\n"
  /\ ~IsPrefix(svc.submitted, svc.text)

\* C36: the audio track of every deliverable is the narration synthesized
\* for that job, never another sound
C36_TrackIsOwnNarration ==
  \A j \in JobIds :
    (sched.at[j] = "done" /\ sched.files[FinalVideoPath(j)] = j) =>
      sched.track[j] = j

\* C37: a composition operation invoked a second time with the same input
\* files and the same video_id leaves the files as the first call left them:
\* the final path holds the same content and no temporary or concat-list
\* file of the job is left.
C37_CompositionIdempotent ==
  comp.again =>
    /\ comp.fs = comp.before
    /\ comp.fs[FinalPath(comp.id)] # Absent
    /\ comp.fs[TempPath(comp.id)] = Absent
    /\ comp.fs[ConcatPath(comp.id)] = Absent

C37_Witness ==
  /\ comp.again
  /\ comp.op = "compose_video"
  /\ comp.fs[FinalPath(comp.id)] = Data("encoded", "mux", MaxClips)
  /\ comp.before[FinalPath(comp.id)] = Data("encoded", "mux", MaxClips)

\* C38: after a restart, every job that the reloaded map holds with status
\* processing eventually reaches status completed or failed.
C38_ReloadedJobsFinish ==
  \A j \in JobIds :
    (boot.n > 0 /\ Up /\ j \in DOMAIN videos_db /\ videos_db[j].status = "processing")
      ~> (j \in DOMAIN videos_db /\ videos_db[j].status \in Terminal)

\* the Python test  pat in s,  position by position
Occurs(s, pat) ==
  \E i \in 1..Len(s) :
    /\ i + Len(pat) - 1 <= Len(s)
    /\ \A k \in 1..Len(pat) : s[i + k - 1] = pat[k]

\* C39: the category depends on the lower-cased exception text alone: the
\* timeout category when it contains "timeout" (also when it contains "api"
\* as well), else the API category when it contains "api", else the generic
\* category; both except clauses give the same category for the same text.
C39_CategoryByLoweredText ==
  svc.op = "classify" =>
    LET s == Lower(svc.text)
        timeout == Occurs(s, << "t", "i", "m", "e", "o", "u", "t" >>)
        api == Occurs(s, << "a", "p", "i" >>)
    IN
    /\ svc.generated = svc.approved
    /\ svc.generated = svc.lowered
    /\ svc.generated \in Categories
    /\ timeout => svc.generated = CatTimeout
    /\ (~timeout /\ api) => svc.generated = CatApi
    /\ (~timeout /\ ~api) => svc.generated = CatGeneric

C39_Witness ==
  /\ svc.op = "classify"
  /\ svc.text = << "a", "p", "i", " ", "T", "i", "m", "e", "o", "u", "t" >>
  /\ svc.generated = CatTimeout
  /\ svc.approved = CatTimeout

\* the progress values a record can have at a stage boundary: 0 from the
\* submission, then the value of each update_progress call
Boundaries(req) ==
  {0} \cup {Stages(req)[k].progress : k \in DOMAIN Stages(req)} \cup {FinalProgress}

\* C40: in a step in which a job fails, its progress is the value of a stage
\* boundary it reached, its video_url and completed_at are null afterwards,
\* no field other than status, error, current_stage (and the progress of the
\* boundary) differs, and the records of the other jobs are as before.
C40_FailureFrame ==
  [][\A j \in DOMAIN videos_db :
       (videos_db[j].status = "processing" /\ j \in DOMAIN videos_db'
          /\ videos_db'[j].status = "failed") =>
         /\ videos_db'[j].progress \in Boundaries(request[j])
         /\ videos_db'[j].progress >= videos_db[j].progress
         /\ videos_db'[j].video_url = NULL
         /\ videos_db'[j].completed_at = NULL
         /\ videos_db'[j].video_id = videos_db[j].video_id
         /\ videos_db'[j].youtube_url = videos_db[j].youtube_url
         /\ \A k \in DOMAIN videos_db \ {j} :
              k \in DOMAIN videos_db' /\ videos_db'[k] = videos_db[k]]_vars

\* C21: no pipeline's media file is overwritten by another pipeline while
\* it is held for composition, and no composition reads a file that another
\* pipeline wrote.
C21_ArtifactsExclusive == ~sched.overwritten /\ ~sched.foreign

\* calls a pipeline waits in
LongCalls == {"tts", "render", "demo_tool", "ffprobe", "ffmpeg"}

\* C22: a pipeline that is waiting in a collaborator call or in a media-tool
\* subprocess does not hold the event loop.
C22_WaitingLeavesLoopFree ==
  \A j \in JobIds : sched.at[j] \in LongCalls => sched.holder # j

\* the call a job is waiting for
\* C26: muxing a video of duration Dv with an audio track of duration Da, in
\* mux_screen_recording_with_audio and in the mux step of compose_video, gives
\* a deliverable of duration min(Dv, Da), and both its streams have that length
C26_MuxKeepsShorter ==
  (media.op \in {"compose_video", "mux_screen_recording_with_audio"}
     /\ ~media.fallback) =>
    \E shorter \in {Min({Duration(media.video.video), media.audio.audio})} :
      /\ FileDuration(media.final) = shorter
      /\ Duration(media.final.video) = shorter
      /\ media.final.audio = shorter

C26_Witness ==
  /\ media.op = "mux_screen_recording_with_audio"
  /\ Duration(media.video.video) > media.audio.audio
  /\ FileDuration(media.final) = media.audio.audio

\* C27: the concatenate step of compose_video, applied to the K clips that are
\* on disk, gives a stream without sound whose duration is the sum of the K
\* durations, in which each of the K clips appears once, whole, and in the
\* order of the input
C27_ConcatJoinsInOrder ==
  (media.op = "compose_video" /\ ~media.fallback) =>
    LET joined == media.video.video
    IN  /\ media.video.audio = 0
        /\ \A i \in DOMAIN media.clips :
             media.clips[i].exists =>
               /\ Cardinality({k \in DOMAIN joined : joined[k].src = i}) = 1
               /\ \A k \in DOMAIN joined :
                    joined[k].src = i => joined[k].len = media.clips[i].len
        /\ \A k \in DOMAIN joined : media.clips[joined[k].src].exists
        /\ \A k \in 1..(Len(joined) - 1) : joined[k].src < joined[k + 1].src
        /\ Duration(joined)
             = Duration(SelectSeq(media.clips, LAMBDA clip : clip.exists))

C27_Witness ==
  /\ media.op = "compose_video"
  /\ ~media.fallback
  /\ Len(media.clips) = 2
  /\ media.clips[1].exists /\ media.clips[2].exists
  /\ media.clips[1].len > media.clips[2].len
  /\ media.video.video = << Seg(1, media.clips[1].len),
                            Seg(2, media.clips[2].len) >>

C29_CircleMask ==
  /\ media.op = "overlay_avatar_on_screen_recording" =>
       media.frame.size = media.background
  /\ media.op = "pixel" =>
       /\ media.X \in 0..299 /\ media.Y \in 0..299
       /\ media.alpha = 255 <=>
            (media.X - 150) * (media.X - 150)
              + (media.Y - 150) * (media.Y - 150) < 150 * 150
       /\ media.alpha # 255 => (media.alpha = 0 /\ media.shown = "background")
       /\ media.alpha = 255 => media.shown = "avatar"

C29_Witness ==
  /\ media.op = "pixel"
  /\ media.X = 60 /\ media.Y = 30
  /\ media.alpha = 0
  /\ media.shown = "background"

Awaits(j, c) == pc[j] = "await" /\ Stages(request[j])[stage[j]].call = c

\* C23: an avatar-mode job whose script has K sections reaches composition
\* with K avatar clips, one per section.
C23_OneClipPerSection ==
  \A j \in DOMAIN videos_db :
    (request[j].mode = "avatar" /\ Awaits(j, "compose")) =>
      art[j].clips = art[j].sections

\* C24: a job submitted with an approved script, none of whose collaborator
\* calls fails and none of whose store writes fails, never calls script
\* generation and ends completed, in each of the three modes.
C24_ApprovedScriptCompletes ==
  \A j \in DOMAIN videos_db :
    request[j].with_script =>
      /\ \A i \in 1..Len(Stages(request[j])) :
            Stages(request[j])[i].call \notin {"script", "analyze"}
      /\ (pc[j] = "done" /\ ~hist[j].env_failure /\ ~hist[j].storage)
            => videos_db[j].status = "completed"

\* C25: two jobs of the same mode that completed have shown the same
\* sequence of progress values in the store file.
C25_ProgressByModeAlone ==
  \A j, k \in DOMAIN videos_db :
    ( /\ request[j].mode = request[k].mode
      /\ videos_db[j].status = "completed"
      /\ videos_db[k].status = "completed"
      /\ pc[j] = "done" /\ pc[k] = "done" )
    => hist[j].log = hist[k].log

\* C30: the file at the video_path of a completed job is the output of the
\* re-encode that ends the job's composition operation.
C30_DeliverableNormalized ==
  \A j \in DOMAIN videos_db :
    videos_db[j].status = "completed" => art[j].encoded

\* C20: in every mode that renders an avatar clip, the backend a job's render
\* calls go to is the one its provider flag names.
C20_BackendFollowsProvider ==
  \A j \in DOMAIN videos_db :
    art[j].backend # "none" => art[j].backend = request[j].provider

\* C10: a composition call that meets a failing step reports a failure to
\* its caller, and the file at the path a call returns is a playable video.
C10_FailureReportedNoCorruptFile ==
  comp.op # "none" =>
    /\ (MissingInput \/ ToolFailed) =>
         (comp.result.raised \/ comp.result.failure # NULL)
    /\ comp.result.content \in {"encoded", "demo_asset"}

====
